---- MODULE Spec2Model ----
(***************************************************************************)
(* agentjj: the intent transaction engine (Repo::apply), the manifest      *)
(* policy evaluator and the operation log, modelled from src/src/repo.rs,  *)
(* src/src/manifest.rs and src/src/intent.rs.                              *)
(*                                                                         *)
(* Strings whose characters matter (paths, glob patterns, hex digests) are *)
(* sequences of one-character strings.  Operation ids, change ids and file *)
(* contents are small naturals; 0 stands for "none"/"absent".              *)
(***************************************************************************)
EXTENDS Integers, Sequences, FiniteSets, TLC

VARIABLES
    ops,        \* operation log: op id -> [parent, view, desc]
    opHead,     \* the current operation id (head of the operation log)
    commits,    \* commit store: change id -> [parent, tree, conflict]
    fs,         \* working directory: path -> content (0 = no such file)
    manifest,   \* .agent/manifest.toml, or a record with present = FALSE
    typed,      \* .agent/changes/<id>.toml: set of typed-change records
    tempPatch,  \* whether .agent/temp.patch exists
    git,        \* the colocated Git repository: branch refs and HEAD
    pc,         \* position of the Repo::apply call in progress
    intent,     \* the Intent of the call in progress
    pre,        \* the repository as it was when apply was called
    loc,        \* apply's locals: change_id, operation_id, files_changed, and
                \* the invariants whose command it has run
    result,     \* what apply returned
    fnIn,       \* input of the function under check outside the engine, or
                \* the files and stores it works on
    fnOut       \* its output

vars == <<ops, opHead, commits, fs, manifest, typed, tempPatch, git,
          pc, intent, pre, loc, result, fnIn, fnOut>>

engineVars == <<ops, opHead, commits, fs, manifest, typed, tempPatch, git,
                pc, intent, pre, loc, result>>

Null == [none |-> TRUE]

---------------------------------------------------------------------------
(* Bounds *)

MaxOps == 4         \* longest operation log explored
MaxPatLen == 5      \* longest glob pattern drawn for the matcher
MaxPathLen == 3     \* longest path drawn for the matcher
MaxListLen == 2     \* longest allow/deny list drawn for can_change/can_push
MaxCommits == 1     \* most commits made by commit_working_copy in one run
MaxDepth == 2       \* directories from the current one up to the file system root
MaxCalls == 2       \* calls of Repo::discover in one run
MaxNodes == 4       \* commits of the DAG log_entries walks, the root included
MaxMatches == 3     \* raw query matches of one extract_symbols call
MaxChanges == 3     \* changes created in one run of the typed-change store
MaxDay == 48000     \* days_to_ymd is applied to the days -MaxDay..MaxDay

---------------------------------------------------------------------------
(* Strings *)

StartsWith(s, p) == Len(p) <= Len(s) /\ SubSeq(s, 1, Len(p)) = p

EndsWith(s, p) == Len(p) <= Len(s) /\ SubSeq(s, Len(s) - Len(p) + 1, Len(s)) = p

Contains(s, sub) ==
    \E i \in 1..(Len(s) - Len(sub) + 1) : SubSeq(s, i, i + Len(sub) - 1) = sub

\* str::trim_end_matches: strips the suffix repeatedly
RECURSIVE TrimEndMatches(_, _)
TrimEndMatches(s, suf) ==
    IF Len(suf) > 0 /\ EndsWith(s, suf)
    THEN TrimEndMatches(SubSeq(s, 1, Len(s) - Len(suf)), suf)
    ELSE s

\* str::split(c): the pieces between the occurrences of the character c
RECURSIVE Split(_, _)
Split(s, c) ==
    IF \A i \in 1..Len(s) : s[i] # c
    THEN <<s>>
    ELSE LET k == CHOOSE i \in 1..Len(s) :
                      s[i] = c /\ \A j \in 1..(i - 1) : s[j] # c
         IN  <<SubSeq(s, 1, k - 1)>> \o Split(SubSeq(s, k + 1, Len(s)), c)

---------------------------------------------------------------------------
(* Manifest: permissions (src/src/manifest.rs) *)

StarStar == <<"*", "*">>
SlashStarStar == <<"/", "*", "*">>

\* mutant: a trailing /** keeps the slash in the prefix
glob_match_keepSlash(pattern, path) ==
    IF pattern = StarStar THEN TRUE
    ELSE IF Contains(pattern, StarStar)
         THEN StartsWith(path, TrimEndMatches(pattern, StarStar))
         ELSE IF Contains(pattern, <<"*">>) /\ Len(Split(pattern, "*")) = 2
              THEN /\ StartsWith(path, Split(pattern, "*")[1])
                   /\ EndsWith(path, Split(pattern, "*")[2])
              ELSE pattern = path

glob_match(pattern, path) ==
    IF pattern = StarStar THEN TRUE
    ELSE IF Contains(pattern, StarStar)
         THEN StartsWith(path,
                  TrimEndMatches(TrimEndMatches(pattern, SlashStarStar), StarStar))
         ELSE IF Contains(pattern, <<"*">>) /\ Len(Split(pattern, "*")) = 2
              THEN /\ StartsWith(path, Split(pattern, "*")[1])
                   /\ EndsWith(path, Split(pattern, "*")[2])
              ELSE pattern = path

matches_any(path, patterns) ==
    \E i \in 1..Len(patterns) : glob_match(patterns[i], path)

\* mutant: the allow list is consulted before the deny list
can_change_allowFirst(perm, path) ==
    IF matches_any(path, perm.allow_change) THEN TRUE
    ELSE IF matches_any(path, perm.deny_change) THEN FALSE
    ELSE perm.allow_change = <<>>

can_change(perm, path) ==
    IF matches_any(path, perm.deny_change) THEN FALSE
    ELSE IF perm.allow_change = <<>> THEN TRUE
    ELSE matches_any(path, perm.allow_change)

can_push(perm, branch) ==
    IF matches_any(branch, perm.deny_push) THEN FALSE
    ELSE IF perm.allow_push = <<>> THEN TRUE
    ELSE matches_any(branch, perm.allow_push)

---------------------------------------------------------------------------
(* Repository data *)

None == Null
Some(x) == [some |-> x]

PSA == <<"s", "/", "a">>
PMA == <<"m", "/", "a">>
PB == <<"b">>
Paths == {PSA, PMA, PB}

Branches == {"main", "feat"}

Contents == 1..2

\* hex::encode(Sha256(content)): lowercase hex, one digest per content
Digest(c) == IF c = 1 THEN <<"a", "1">> ELSE <<"b", "2">>

\* str::to_lowercase on the characters hex strings are written with
LowerChar(ch) ==
    CASE ch = "A" -> "a" [] ch = "B" -> "b" [] ch = "D" -> "d" [] OTHER -> ch

to_lowercase(s) == [i \in 1..Len(s) |-> LowerChar(s[i])]

EmptyTree == [p \in Paths |-> 0]

\* a Git repository without branches whose HEAD names the unborn branch main
NoGit == [refs |-> [b \in Branches |-> 0], head |-> "main", default_branch |-> ""]

\* TreeDiffIterator: the paths whose value differs between two trees
TreeDiff(t1, t2) == {p \in Paths : t1[p] # t2[p]}

\* the elements of a Vec
Elems(s) == {s[i] : i \in 1..Len(s)}

---------------------------------------------------------------------------
(* Manifests a repository may carry *)

NoManifest ==
    [present |-> FALSE,
     permissions |-> [allow_change |-> <<>>, deny_change |-> <<>>],
     require_human |-> <<>>,
     invariants |-> {}]

\* Invariant::Simple(cmd): a command-only invariant, it has no trigger list
Simple(name) == [name |-> name, simple |-> TRUE, on |-> {}]

\* Invariant::Full { cmd, on }
Invariant(name, on) == [name |-> name, simple |-> FALSE, on |-> on]

Manifests ==
    { NoManifest,
      [present |-> TRUE,
       permissions |-> [allow_change |-> <<>>, deny_change |-> <<>>],
       require_human |-> <<>>,
       invariants |-> {}],
      [present |-> TRUE,
       permissions |-> [allow_change |-> << <<"s", "/", "*", "*">>,
                                            <<"m", "/", "*", "*">> >>,
                        deny_change |-> << <<"m", "/", "*">> >>],
       require_human |-> <<>>,
       invariants |-> {Simple("lint"), Invariant("tests", {"PreCommit"})}],
      [present |-> TRUE,
       permissions |-> [allow_change |-> <<>>, deny_change |-> <<>>],
       require_human |-> << <<"s", "/", "*">> >>,
       invariants |-> {Invariant("tests", {"PreCommit"}),
                       Invariant("push", {"PrePush"})}],
      [present |-> TRUE,
       permissions |-> [allow_change |-> <<>>, deny_change |-> <<>>],
       require_human |-> <<>>,
       invariants |-> {Invariant("push", {"PrePush", "Pr"})}] }

has_manifest == manifest.present

\* Invariant::triggers
triggers(inv) == IF inv.simple THEN {} ELSE inv.on

\* mutant: an invariant without triggers runs for no trigger
should_run_on_listedOnly(inv, trigger) == trigger \in triggers(inv)

\* Invariant::should_run_on
should_run_on(inv, trigger) == triggers(inv) = {} \/ trigger \in triggers(inv)

invariants_for(m, trigger) == {inv \in m.invariants : should_run_on(inv, trigger)}

requires_human_review(m, path) ==
    \E i \in 1..Len(m.require_human) : glob_match(m.require_human[i], path)

---------------------------------------------------------------------------
(* Intents (src/src/intent.rs) *)

Create(path, content) == [op |-> "create", path |-> path, content |-> content]
Replace(path, content) == [op |-> "replace", path |-> path, content |-> content]
Delete(path) == [op |-> "delete", path |-> path]
Rename(from, to) == [op |-> "rename", from |-> from, to |-> to]

Files(operations) == [format |-> "files", operations |-> operations]
\* a unified diff that rewrites one file
Patch(path, content) == [format |-> "patch", path |-> path, content |-> content]
\* the file at `path` holds a unified diff that rewrites PSA to content 2
PatchFile(path) == [format |-> "patchfile", path |-> path]

ChangeSpecs ==
    { Files(<<>>),
      Files(<<Create(PSA, 1)>>),
      Files(<<Replace(PSA, 1)>>),
      Files(<<Create(PMA, 2)>>),
      Files(<<Create(PB, 2)>>),
      Files(<<Delete(PSA)>>),
      Files(<<Rename(PSA, PMA)>>),
      Files(<<Create(PB, 1), Delete(PMA)>>),
      Patch(PSA, 2),
      PatchFile(PB) }

NoPreconditions ==
    [operation_id |-> None,
     branch_at |-> <<>>,
     file_hashes |-> <<>>,
     files_exist |-> <<>>,
     files_absent |-> <<>>]

\* the values each precondition field is drawn from; the maps branch_at and
\* file_hashes are written as lists of <<key, value>> entries
OperationIdChoices == {None} \cup {Some(o) : o \in 1..2}
BranchAtChoices == {<<>>, << <<"main", 1>> >>, << <<"main", 2>> >>, << <<"feat", 1>> >>}
FileHashChoices ==
    {<<>>, << <<PSA, <<"a", "1">> >> >>, << <<PSA, <<"A", "1">> >> >>,
     << <<PSA, <<"b", "a", "d">> >> >>}
FilesExistChoices == {<<>>, <<PSA>>}
FilesAbsentChoices == {<<>>, <<PB>>}

AllPreconditions ==
    [operation_id : OperationIdChoices,
     branch_at : BranchAtChoices,
     file_hashes : FileHashChoices,
     files_exist : FilesExistChoices,
     files_absent : FilesAbsentChoices]

\* the number of fields that differ from Preconditions::default()
SetFields(p) ==
    (IF p.operation_id # None THEN 1 ELSE 0)
    + (IF p.branch_at # <<>> THEN 1 ELSE 0)
    + (IF p.file_hashes # <<>> THEN 1 ELSE 0)
    + (IF p.files_exist # <<>> THEN 1 ELSE 0)
    + (IF p.files_absent # <<>> THEN 1 ELSE 0)

\* preconditions with at most two kinds of check
PreconditionChoices == {p \in AllPreconditions : SetFields(p) <= 2}

\* the specs that are combined with every choice of preconditions: one that
\* touches a path the manifests deny, one that touches a review path, a patch
GatedChangeSpecs ==
    {Files(<<Create(PMA, 2)>>), Files(<<Create(PSA, 1)>>), Patch(PSA, 2)}

Intents ==
    [preconditions : {NoPreconditions},
     changes : ChangeSpecs,
     run_invariants : BOOLEAN]
    \cup [preconditions : PreconditionChoices,
          changes : GatedChangeSpecs,
          run_invariants : {TRUE}]

---------------------------------------------------------------------------
(* Intent results (src/src/intent.rs) *)

Success(change_id, operation_id, files_changed, invariants) ==
    [status |-> "Success", change_id |-> change_id, operation_id |-> operation_id,
     files_changed |-> files_changed, invariants |-> invariants]

PreconditionFailed(reason) ==
    [status |-> "PreconditionFailed", reason |-> reason]

Conflict(change_id, operation_id, rollback) ==
    [status |-> "Conflict", change_id |-> change_id, operation_id |-> operation_id,
     rollback_command |-> rollback]

InvariantFailed(name, change_id, rollback) ==
    [status |-> "InvariantFailed", invariant |-> name, change_id |-> change_id,
     rollback_command |-> rollback]

PermissionDenied(path) ==
    [status |-> "PermissionDenied", action |-> "change", path |-> path]

RequiresReview(change_id, paths) ==
    [status |-> "RequiresReview", change_id |-> change_id, paths |-> paths]

\* Err(Error::Io) and Err(Error::Repository) returned by apply
ErrIo == [status |-> "Io"]
ErrRepository(message) == [status |-> "Repository", message |-> message]

\* IntentResult::change_id
change_id_of(r) ==
    IF r.status \in {"Success", "Conflict", "InvariantFailed", "RequiresReview"}
    THEN Some(r.change_id)
    ELSE None

\* IntentResult::rollback_command
rollback_command_of(r) ==
    IF r.status \in {"Conflict", "InvariantFailed"}
    THEN Some(r.rollback_command)
    ELSE None

\* format!("jj op restore {}", prev_op)
FormatRollback(prev_op) == <<"jj op restore ", prev_op>>

\* the operation id a caller reads back from a rollback command
ParseRollback(cmd) == cmd[2]

---------------------------------------------------------------------------
(* Repository handle: reads (src/src/repo.rs) *)

\* repo.view().get_wc_commit_id(): the working-copy commit of the head operation
wc_commit_id == ops[opHead].view.wc

\* Repo::current_change_id
current_change_id == wc_commit_id

\* Repo::current_operation_id
current_operation_id == opHead

\* Repo::branch_change_id
branch_change_id(branch) ==
    LET target == ops[opHead].view.bookmarks[branch]
    IN  IF target = 0 THEN None ELSE Some(target)

\* Repo::has_conflicts
has_conflicts(change_id) == commits[change_id].conflict

\* Repo::get_previous_op_id: the first parent of the head operation, or the
\* head operation itself when it has no parent
get_previous_op_id ==
    IF ops[opHead].parent = 0 THEN opHead ELSE ops[opHead].parent

\* op1 is op2 or one of its ancestors in the operation log
RECURSIVE IsAncestorOrEqual(_, _)
IsAncestorOrEqual(op1, op2) ==
    IF op2 = 0 THEN FALSE
    ELSE IF op1 = op2 THEN TRUE
    ELSE IsAncestorOrEqual(op1, ops[op2].parent)

---------------------------------------------------------------------------
(* Repo::check_preconditions and Repo::check_permissions *)

\* Each returns the set of results the gate can return: empty when the gate
\* passes.  A map (HashMap) is visited in an arbitrary order, so any failing
\* entry may be the one reported; a Vec is visited in order.

FirstIndex(s, Bad(_)) ==
    CHOOSE k \in 1..Len(s) : Bad(s[k]) /\ \A j \in 1..(k - 1) : ~Bad(s[j])

BranchFails(e) == branch_change_id(e[1]) # Some(e[2])
FileMissing(path) == fs[path] = 0
FilePresent(path) == fs[path] # 0
\* mutant: the expected digest is compared as written
HashFails_caseSensitive(e) == fs[e[1]] = 0 \/ Digest(fs[e[1]]) # e[2]

HashFails(e) == fs[e[1]] = 0 \/ Digest(fs[e[1]]) # to_lowercase(e[2])

\* mutant: the required-present files are checked before the branches
check_preconditions_filesFirst(i) ==
    LET preconds == i.preconditions
        branchBad == {k \in 1..Len(preconds.branch_at) :
                          BranchFails(preconds.branch_at[k])}
        hashBad == {k \in 1..Len(preconds.file_hashes) :
                          HashFails(preconds.file_hashes[k])}
    IN  IF preconds.operation_id # None
           /\ Some(current_operation_id) # preconds.operation_id
        THEN {PreconditionFailed([msg |-> "operation ID mismatch"])}
        ELSE IF \E k \in 1..Len(preconds.files_exist) :
                    FileMissing(preconds.files_exist[k])
        THEN {PreconditionFailed(
                 [msg |-> "file does not exist",
                  file |-> preconds.files_exist[
                               FirstIndex(preconds.files_exist, FileMissing)]])}
        ELSE IF branchBad # {}
        THEN {IF branch_change_id(preconds.branch_at[k][1]) = None
              THEN PreconditionFailed([msg |-> "branch not found",
                                       branch |-> preconds.branch_at[k][1]])
              ELSE PreconditionFailed([msg |-> "branch has moved",
                                       branch |-> preconds.branch_at[k][1]])
              : k \in branchBad}
        ELSE IF \E k \in 1..Len(preconds.files_absent) :
                    FilePresent(preconds.files_absent[k])
        THEN {PreconditionFailed(
                 [msg |-> "file should not exist",
                  file |-> preconds.files_absent[
                               FirstIndex(preconds.files_absent, FilePresent)]])}
        ELSE {IF fs[preconds.file_hashes[k][1]] = 0
              THEN PreconditionFailed([msg |-> "file not found for hash check",
                                       file |-> preconds.file_hashes[k][1]])
              ELSE PreconditionFailed([msg |-> "file hash mismatch",
                                       file |-> preconds.file_hashes[k][1]])
              : k \in hashBad}

\* Repo::check_preconditions: the results it can return, empty when every
\* check passes; the two maps are walked in an order the code does not fix
check_preconditions(i) ==
    LET preconds == i.preconditions
        branchBad == {k \in 1..Len(preconds.branch_at) :
                          BranchFails(preconds.branch_at[k])}
        hashBad == {k \in 1..Len(preconds.file_hashes) :
                          HashFails(preconds.file_hashes[k])}
    IN  IF preconds.operation_id # None
           /\ Some(current_operation_id) # preconds.operation_id
        THEN {PreconditionFailed([msg |-> "operation ID mismatch"])}
        ELSE IF branchBad # {}
        THEN {IF branch_change_id(preconds.branch_at[k][1]) = None
              THEN PreconditionFailed([msg |-> "branch not found",
                                       branch |-> preconds.branch_at[k][1]])
              ELSE PreconditionFailed([msg |-> "branch has moved",
                                       branch |-> preconds.branch_at[k][1]])
              : k \in branchBad}
        ELSE IF \E k \in 1..Len(preconds.files_exist) :
                    FileMissing(preconds.files_exist[k])
        THEN {PreconditionFailed(
                 [msg |-> "file does not exist",
                  file |-> preconds.files_exist[
                               FirstIndex(preconds.files_exist, FileMissing)]])}
        ELSE IF \E k \in 1..Len(preconds.files_absent) :
                    FilePresent(preconds.files_absent[k])
        THEN {PreconditionFailed(
                 [msg |-> "file should not exist",
                  file |-> preconds.files_absent[
                               FirstIndex(preconds.files_absent, FilePresent)]])}
        ELSE {IF fs[preconds.file_hashes[k][1]] = 0
              THEN PreconditionFailed([msg |-> "file not found for hash check",
                                       file |-> preconds.file_hashes[k][1]])
              ELSE PreconditionFailed([msg |-> "file hash mismatch",
                                       file |-> preconds.file_hashes[k][1]])
              : k \in hashBad}

\* the path check_permissions presents to can_change for one file operation
PermissionPath(op) ==
    IF op.op = "rename"
    THEN op.from \o <<" ", "-", ">", " ">> \o op.to
    ELSE op.path

check_permissions(i) ==
    LET files == IF i.changes.format = "files"
                 THEN [k \in 1..Len(i.changes.operations) |->
                          PermissionPath(i.changes.operations[k])]
                 ELSE <<>>
        Denied(file) == ~can_change(manifest.permissions, file)
    IN  IF \E k \in 1..Len(files) : Denied(files[k])
        THEN {PermissionDenied(files[FirstIndex(files, Denied)])}
        ELSE {}

---------------------------------------------------------------------------
(* Repository handle: transactions (src/src/repo.rs) *)

\* what a jj-lib transaction reads and writes: the operation log with its
\* head, and the commit store
Repository == [ops |-> ops, opHead |-> opHead, commits |-> commits]

\* mutant: the new commit is not made the working-copy commit
create_new_change_keepWc(r) ==
    LET wc == r.ops[r.opHead].view.wc
        cs == Append(r.commits, [parent |-> wc,
                                 tree |-> r.commits[wc].tree,
                                 conflict |-> r.commits[wc].conflict])
        os == Append(r.ops, [parent |-> r.opHead,
                             view |-> r.ops[r.opHead].view,
                             desc |-> "new change"])
    IN  [ops |-> os, opHead |-> Len(os), commits |-> cs]

\* Repo::create_new_change: a new commit on the working-copy commit with the
\* parent's tree, made the working-copy commit by a new operation "new change"
create_new_change(r) ==
    LET wc == r.ops[r.opHead].view.wc
        cs == Append(r.commits, [parent |-> wc,
                                 tree |-> r.commits[wc].tree,
                                 conflict |-> r.commits[wc].conflict])
        os == Append(r.ops, [parent |-> r.opHead,
                             view |-> [r.ops[r.opHead].view EXCEPT !.wc = Len(cs)],
                             desc |-> "new change"])
    IN  [ops |-> os, opHead |-> Len(os), commits |-> cs]

\* Repo::undo_operation: loads the repository at the parent of the head
\* operation into a local that is dropped; nothing is written
undo_operation(r) == r

\* mutant: the head moves back to the target and no operation is recorded
restore_operation_rewind(r, op_id) == [r EXCEPT !.opHead = op_id]

\* Repo::restore_operation: a new operation "restore to operation" on top of
\* the head whose view is the current view merged with (target - current)
restore_operation(r, op_id) ==
    LET os == Append(r.ops, [parent |-> r.opHead,
                             view |-> r.ops[op_id].view,
                             desc |-> "restore to operation"])
    IN  [r EXCEPT !.ops = os, !.opHead = Len(os)]

---------------------------------------------------------------------------
(* Repo::apply_changes *)

\* what running `patch -p1 -i .agent/temp.patch` can do
PatchOutcomes == {"applied", "rejected", "spawn_error"}

\* the file operations of a Files spec in order, stopping at the first error;
\* what the earlier operations wrote stays written
RECURSIVE apply_file_ops(_, _, _)
apply_file_ops(f, operations, files) ==
    IF operations = <<>>
    THEN [ok |-> TRUE, fs |-> f, files |-> files]
    ELSE LET op == Head(operations)
             rest == Tail(operations)
         IN  CASE op.op \in {"create", "replace"} ->
                    apply_file_ops([f EXCEPT ![op.path] = op.content], rest,
                                   Append(files, op.path))
               [] op.op = "delete" ->
                    IF f[op.path] = 0
                    THEN [ok |-> FALSE, fs |-> f, files |-> files]
                    ELSE apply_file_ops([f EXCEPT ![op.path] = 0], rest,
                                        Append(files, op.path))
               [] op.op = "rename" ->
                    IF f[op.from] = 0
                    THEN [ok |-> FALSE, fs |-> f, files |-> files]
                    ELSE apply_file_ops(
                             IF op.from = op.to THEN f
                             ELSE [f EXCEPT ![op.to] = f[op.from], ![op.from] = 0],
                             rest, Append(Append(files, op.from), op.to))

\* the Patch arm: temp.patch is written, patch is run, temp.patch is removed
\* unless starting patch failed, in which case the function has returned
apply_patch(f, path, content, outcome) ==
    CASE outcome = "spawn_error" ->
            [ok |-> FALSE, err |-> ErrRepository("failed to run patch"),
             fs |-> f, files |-> <<>>, temp |-> TRUE]
      [] outcome = "rejected" ->
            [ok |-> FALSE, err |-> ErrRepository("patch failed"),
             fs |-> f, files |-> <<>>, temp |-> FALSE]
      [] outcome = "applied" ->
            [ok |-> TRUE, err |-> Null,
             fs |-> [f EXCEPT ![path] = content], files |-> <<>>, temp |-> FALSE]

\* mutant: a Files spec without operations is refused
apply_changes_rejectEmpty(f, temp, changes, outcome) ==
    CASE changes.format = "patch" ->
            apply_patch(f, changes.path, changes.content, outcome)
      [] changes.format = "patchfile" ->
            IF f[changes.path] = 0
            THEN [ok |-> FALSE, err |-> ErrIo, fs |-> f, files |-> <<>>,
                  temp |-> temp]
            ELSE apply_patch(f, PSA, 2, outcome)
      [] changes.format = "files" ->
            LET done == apply_file_ops(f, changes.operations, <<>>)
            IN  [ok |-> done.ok /\ changes.operations # <<>>,
                 err |-> IF done.ok /\ changes.operations # <<>>
                         THEN Null ELSE ErrIo,
                 fs |-> done.fs, files |-> done.files, temp |-> temp]

apply_changes(f, temp, changes, outcome) ==
    CASE changes.format = "patch" ->
            apply_patch(f, changes.path, changes.content, outcome)
      [] changes.format = "patchfile" ->
            IF f[changes.path] = 0
            THEN [ok |-> FALSE, err |-> ErrIo, fs |-> f, files |-> <<>>,
                  temp |-> temp]
            ELSE apply_patch(f, PSA, 2, outcome)
      [] changes.format = "files" ->
            LET done == apply_file_ops(f, changes.operations, <<>>)
            IN  [ok |-> done.ok, err |-> IF done.ok THEN Null ELSE ErrIo,
                 fs |-> done.fs, files |-> done.files, temp |-> temp]

---------------------------------------------------------------------------
(* Repo::run_invariants *)

\* every selected invariant is a shell command whose exit status the
\* repository does not determine: either all exit 0, or the first one found
\* failing (in the map's arbitrary order) is returned
run_invariants(trigger) ==
    LET names == {inv.name : inv \in invariants_for(manifest, trigger)}
    IN  {[ok |-> TRUE, results |-> [n \in names |-> "Passed"]]}
        \cup {[ok |-> FALSE, name |-> n] : n \in names}

\* the status apply records for the invariants that ran
apply_invariants_status(invariants) ==
    IF \A n \in DOMAIN invariants : invariants[n] = "Passed"
    THEN "Passed"
    ELSE "Failed"

\* TypedChange::new(..).with_files(..) with its invariants record
TypedChange(change_id, files, invariants) ==
    [change_id |-> change_id, files |-> files,
     invariants |-> [checked |-> DOMAIN invariants,
                     status |-> apply_invariants_status(invariants),
                     details |-> invariants]]

\* TypedChange::save: .agent/changes/<change_id>.toml is written whole
save_typed_change(store, change) ==
    {t \in store : t.change_id # change.change_id} \cup {change}

---------------------------------------------------------------------------
(* Repo::apply *)

\* Steps 1 and 2: the precondition gate, then the permission gate when a
\* manifest exists.  The results the gates can return; empty when both pass.
apply_gates_permFirst(i) ==
    IF has_manifest /\ check_permissions(i) # {}
    THEN check_permissions(i)
    ELSE check_preconditions(i)

apply_gates(i) ==
    IF check_preconditions(i) # {}
    THEN check_preconditions(i)
    ELSE IF has_manifest THEN check_permissions(i) ELSE {}

\* mutant: the empty change is created before the gates are evaluated
apply_begin_createFirst(i) ==
    IF apply_gates(i) # {}
    THEN {[result |-> r, pc |-> "returned", repo |-> create_new_change(Repository)]
              : r \in apply_gates(i)}
    ELSE {[result |-> Null, pc |-> "create", repo |-> Repository]}

\* apply up to its first VCS mutation: a failing gate returns its result with
\* the repository as it was; otherwise the call goes on to create the change
apply_begin(i) ==
    IF apply_gates(i) # {}
    THEN {[result |-> r, pc |-> "returned", repo |-> Repository]
              : r \in apply_gates(i)}
    ELSE {[result |-> Null, pc |-> "create", repo |-> Repository]}

\* files_changed filtered by manifest.requires_human_review
review_paths(files) ==
    LET NeedsReview(f) == requires_human_review(manifest, f)
    IN  SelectSeq(files, NeedsReview)

\* mutant: the review check stands before the conflict check
apply_finish_reviewFirst ==
    IF has_manifest /\ review_paths(loc.files_changed) # <<>>
    THEN {[result |-> RequiresReview(loc.change_id,
                                     review_paths(loc.files_changed)),
           typed |-> typed, ran |-> {}]}
    ELSE IF has_conflicts(loc.change_id)
    THEN {[result |-> Conflict(loc.change_id, loc.operation_id,
                               FormatRollback(get_previous_op_id)),
           typed |-> typed, ran |-> {}]}
    ELSE {IF run.ok
          THEN [result |-> Success(loc.change_id, loc.operation_id,
                                   loc.files_changed, run.results),
                typed |-> save_typed_change(typed,
                              TypedChange(loc.change_id, loc.files_changed,
                                          run.results)),
                ran |-> DOMAIN run.results]
          ELSE [result |-> InvariantFailed(run.name, loc.change_id,
                                           FormatRollback(get_previous_op_id)),
                typed |-> typed, ran |-> {run.name}]
          : run \in IF intent.run_invariants /\ has_manifest
                    THEN run_invariants("PreCommit")
                    ELSE {[ok |-> TRUE, results |-> <<>>]}}

\* Steps 5 to 8: conflict check, review check, invariants, typed-change
\* record.  The set of (result, typed-change store) pairs apply can end with,
\* each with the invariants whose command is known to have been run (all of
\* them when all passed, the failing one otherwise).
apply_finish ==
    IF has_conflicts(loc.change_id)
    THEN {[result |-> Conflict(loc.change_id, loc.operation_id,
                               FormatRollback(get_previous_op_id)),
           typed |-> typed, ran |-> {}]}
    ELSE IF has_manifest /\ review_paths(loc.files_changed) # <<>>
    THEN {[result |-> RequiresReview(loc.change_id,
                                     review_paths(loc.files_changed)),
           typed |-> typed, ran |-> {}]}
    ELSE {IF run.ok
          THEN [result |-> Success(loc.change_id, loc.operation_id,
                                   loc.files_changed, run.results),
                typed |-> save_typed_change(typed,
                              TypedChange(loc.change_id, loc.files_changed,
                                          run.results)),
                ran |-> DOMAIN run.results]
          ELSE [result |-> InvariantFailed(run.name, loc.change_id,
                                           FormatRollback(get_previous_op_id)),
                typed |-> typed, ran |-> {run.name}]
          : run \in IF intent.run_invariants /\ has_manifest
                    THEN run_invariants("PreCommit")
                    ELSE {[ok |-> TRUE, results |-> <<>>]}}

\* operations the log must still have room for, for the call in progress to
\* create its change and for its rollback handle to be executed
Reserved ==
    CASE pc = "create" -> 2
      [] pc \in {"changes", "gates", "returned"} -> 1
      [] OTHER -> 0

\* apply(intent) is called: gates, up to the creation of the change
ApplyCall(i) ==
    /\ pc = "idle"
    /\ Len(ops) + 2 <= MaxOps
    /\ intent' = i
    /\ pre' = [op |-> opHead, wc |-> current_change_id, fs |-> fs,
               typed |-> typed, ncommits |-> Len(commits),
               bookmarks |-> ops[opHead].view.bookmarks,
               op_before_create |-> 0, op_before_rollback |-> 0]
    /\ loc' = [change_id |-> 0, operation_id |-> 0, files_changed |-> <<>>,
               invariants_run |-> {}]
    /\ \E out \in apply_begin(i) :
           /\ result' = out.result
           /\ pc' = out.pc
           /\ ops' = out.repo.ops
           /\ opHead' = out.repo.opHead
           /\ commits' = out.repo.commits
    /\ UNCHANGED <<fs, manifest, typed, tempPatch, git, fnIn, fnOut>>

\* step 3: create_new_change(&intent.description)
ApplyCreate ==
    /\ pc = "create"
    /\ LET r == create_new_change(Repository)
       IN  /\ ops' = r.ops
           /\ opHead' = r.opHead
           /\ commits' = r.commits
           /\ loc' = [loc EXCEPT !.change_id = Len(r.commits),
                                 !.operation_id = r.opHead]
    /\ pre' = [pre EXCEPT !.op_before_create = opHead]
    /\ pc' = "changes"
    /\ UNCHANGED <<fs, manifest, typed, tempPatch, intent, result, git, fnIn, fnOut>>

\* step 4: apply_changes(&intent.changes); on error undo_operation and Err(e)
ApplyChanges ==
    /\ pc = "changes"
    /\ \E outcome \in PatchOutcomes :
           LET done == apply_changes(fs, tempPatch, intent.changes, outcome)
               undone == undo_operation(Repository)
           IN  /\ fs' = done.fs
               /\ tempPatch' = done.temp
               /\ IF done.ok
                  THEN /\ loc' = [loc EXCEPT !.files_changed = done.files]
                       /\ pc' = "gates"
                       /\ UNCHANGED <<ops, opHead, commits, result>>
                  ELSE /\ ops' = undone.ops
                       /\ opHead' = undone.opHead
                       /\ commits' = undone.commits
                       /\ result' = done.err
                       /\ pc' = "returned"
                       /\ UNCHANGED loc
    /\ UNCHANGED <<manifest, typed, intent, pre, git, fnIn, fnOut>>

\* steps 5 to 8
ApplyFinish ==
    /\ pc = "gates"
    /\ \E out \in apply_finish :
           /\ result' = out.result
           /\ typed' = out.typed
           /\ loc' = [loc EXCEPT !.invariants_run = out.ran]
    /\ pc' = "returned"
    /\ UNCHANGED <<ops, opHead, commits, fs, manifest, tempPatch, intent, pre,
                   git, fnIn, fnOut>>

\* the caller executes the rollback handle of the result:
\* restore_operation(<the operation id of rollback_command>)
ExecRollback ==
    /\ pc = "returned"
    /\ rollback_command_of(result) # None
    /\ LET r == restore_operation(Repository,
                                  ParseRollback(rollback_command_of(result).some))
       IN  /\ ops' = r.ops
           /\ opHead' = r.opHead
           /\ commits' = r.commits
    /\ pre' = [pre EXCEPT !.op_before_rollback = opHead]
    /\ pc' = "rolledback"
    /\ UNCHANGED <<fs, manifest, typed, tempPatch, intent, loc, result,
                   git, fnIn, fnOut>>

\* the caller is done with the result
Return ==
    /\ pc \in {"returned", "rolledback"}
    /\ pc' = "idle"
    /\ intent' = Null
    /\ pre' = Null
    /\ loc' = Null
    /\ result' = Null
    /\ UNCHANGED <<ops, opHead, commits, fs, manifest, typed, tempPatch,
                   git, fnIn, fnOut>>

\* Repo::new_change, called on this handle between applies or by another
\* process on the same repository while an apply is in progress
NewChange ==
    /\ pc \in {"idle", "create", "changes", "gates"}
    /\ Len(ops) + 1 + Reserved <= MaxOps
    /\ LET r == create_new_change(Repository)
       IN  /\ ops' = r.ops
           /\ opHead' = r.opHead
           /\ commits' = r.commits
    /\ UNCHANGED <<fs, manifest, typed, tempPatch, pc, intent, pre, loc,
                   result, git, fnIn, fnOut>>

---------------------------------------------------------------------------
(* The engine *)

InitFs ==
    { EmptyTree,
      [EmptyTree EXCEPT ![PSA] = 1],
      [EmptyTree EXCEPT ![PSA] = 1, ![PMA] = 1],
      [EmptyTree EXCEPT ![PSA] = 2, ![PB] = 1] }

\* a repository with one operation whose working-copy commit holds a
\* snapshot of the working directory and may have unresolved conflicts
Init ==
    /\ fs \in InitFs
    /\ manifest \in Manifests
    /\ \E conflict \in BOOLEAN :
           commits = <<[parent |-> 0, tree |-> fs, conflict |-> conflict]>>
    /\ \E main \in 0..1 :
           ops = <<[parent |-> 0,
                    view |-> [wc |-> 1,
                              bookmarks |-> [b \in Branches |->
                                                IF b = "main" THEN main ELSE 0]],
                    desc |-> "init"]>>
    /\ opHead = 1
    /\ typed = {}
    /\ tempPatch = FALSE
    /\ git = NoGit
    /\ pc = "idle"
    /\ intent = Null
    /\ pre = Null
    /\ loc = Null
    /\ result = Null
    /\ fnIn = Null
    /\ fnOut = Null

Next ==
    \/ \E i \in Intents : ApplyCall(i)
    \/ ApplyCreate
    \/ ApplyChanges
    \/ ApplyFinish
    \/ ExecRollback
    \/ Return
    \/ NewChange

Spec == Init /\ [][Next]_vars

---------------------------------------------------------------------------
(* The glob matcher and the permission evaluators on drawn inputs *)

\* the engine's variables while a pure function is exercised on its own
EngineOff ==
    /\ ops = <<>>
    /\ opHead = 0
    /\ commits = <<>>
    /\ fs = EmptyTree
    /\ manifest = NoManifest
    /\ typed = {}
    /\ tempPatch = FALSE
    /\ git = NoGit
    /\ pc = "off"
    /\ intent = Null
    /\ pre = Null
    /\ loc = Null
    /\ result = Null

PatternChars == {"a", "b", "/", "*"}
PathChars == {"a", "b", "/"}

Patterns == UNION {[1..n -> PatternChars] : n \in 0..MaxPatLen}
PathStrings == UNION {[1..n -> PathChars] : n \in 0..MaxPathLen}

InitGlob ==
    /\ EngineOff
    /\ fnIn \in [pattern : Patterns, path : PathStrings]
    /\ fnOut = Null

\* Permissions::glob_match(pattern, path) is evaluated
GlobMatch ==
    /\ fnOut = Null
    /\ fnOut' = [matched |-> glob_match(fnIn.pattern, fnIn.path)]
    /\ UNCHANGED <<engineVars, fnIn>>

NextGlob == GlobMatch

SpecGlob == InitGlob /\ [][NextGlob]_vars

\* the globs the allow and deny lists are drawn from, and the lists
ListGlobs == {<<"s", "/", "*", "*">>, <<"*", "/", "a">>}
GlobLists == UNION {[1..n -> ListGlobs] : n \in 0..MaxListLen}

InitPerm ==
    /\ EngineOff
    /\ fnIn \in [permissions : [allow_change : GlobLists, deny_change : GlobLists,
                                allow_push : GlobLists, deny_push : GlobLists],
                 name : Paths]
    /\ fnOut = Null

\* permissions.can_change(path) is evaluated
CanChange ==
    /\ fnOut = Null
    /\ fnOut' = [fn |-> "can_change",
                 allowed |-> can_change(fnIn.permissions, fnIn.name)]
    /\ UNCHANGED <<engineVars, fnIn>>

\* permissions.can_push(branch) is evaluated
CanPush ==
    /\ fnOut = Null
    /\ fnOut' = [fn |-> "can_push",
                 allowed |-> can_push(fnIn.permissions, fnIn.name)]
    /\ UNCHANGED <<engineVars, fnIn>>

NextPerm == CanChange \/ CanPush

SpecPerm == InitPerm /\ [][NextPerm]_vars

\* the manifests invariants_for is exercised on: each name is absent, a
\* command-only invariant, or a full invariant with any trigger list
Triggers == {"PrePush", "Pr", "PreCommit", "Always"}
InvariantNames == {"lint", "tests"}
InvariantsOf(name) == {Simple(name)} \cup {Invariant(name, on) : on \in SUBSET Triggers}
InvariantMaps ==
    {l \cup t : l \in {{}} \cup {{inv} : inv \in InvariantsOf("lint")},
                t \in {{}} \cup {{inv} : inv \in InvariantsOf("tests")}}

InitInv ==
    /\ EngineOff
    /\ fnIn \in [manifest : {[NoManifest EXCEPT !.present = TRUE,
                                                !.invariants = invs]
                                 : invs \in InvariantMaps},
                 trigger : Triggers]
    /\ fnOut = Null

\* manifest.invariants_for(trigger) is evaluated
InvariantsFor ==
    /\ fnOut = Null
    /\ fnOut' = [selected |-> invariants_for(fnIn.manifest, fnIn.trigger)]
    /\ UNCHANGED <<engineVars, fnIn>>

NextInv == InvariantsFor

SpecInv == InitInv /\ [][NextInv]_vars

---------------------------------------------------------------------------
(* Repo::commit_working_copy (src/src/repo.rs) *)

\* Here a commit is [parent, tree, conflict, change, desc] and its index in
\* `commits` is its commit id; a view is [wc, bookmarks, git_refs], git_refs
\* being the Git refs as the last export left them.  The commit the Git
\* repository had before it was colocated is not in the commit store.
GitInitialCommit == -1

\* TreeDiffIterator yields the differing paths in path order
PathOrder == <<PB, PMA, PSA>>

DiffList(t1, t2) ==
    LET Differs(p) == t1[p] # t2[p]
    IN  SelectSeq(PathOrder, Differs)

\* get_current_git_branch: the branch HEAD is attached to (born or unborn);
\* for a detached HEAD the configured init.defaultBranch if that branch
\* exists, else main if it exists (the repositories here have no master)
get_current_git_branch(g) ==
    IF g.head # "detached" THEN Some(g.head)
    ELSE IF g.default_branch # "" /\ g.refs[g.default_branch] # 0
         THEN Some(g.default_branch)
         ELSE IF g.refs["main"] # 0 THEN Some("main") ELSE None

\* jj_lib::git::export_refs: a bookmark that differs from its last exported
\* value is written to its Git ref when the ref still has that value (or
\* already the new one), else the export of that ref fails and is ignored.
\* When HEAD is attached to a branch that is to move, the export may leave
\* HEAD detached ("jj colocated mode detaches HEAD"); `detach` is whether
\* it does.
export_refs(view, g, detach) ==
    LET Exported(b) ==
            /\ view.bookmarks[b] # view.git_refs[b]
            /\ g.refs[b] \in {view.git_refs[b], view.bookmarks[b]}
        headMoves ==
            /\ g.head # "detached"
            /\ g.refs[g.head] # 0
            /\ view.bookmarks[g.head] # view.git_refs[g.head]
            /\ view.bookmarks[g.head] # g.refs[g.head]
        refs == [b \in Branches |->
                    IF Exported(b) THEN view.bookmarks[b] ELSE g.refs[b]]
        known == [b \in Branches |->
                    IF Exported(b) THEN view.bookmarks[b] ELSE view.git_refs[b]]
    IN  [view |-> [view EXCEPT !.git_refs = known],
         git |-> [g EXCEPT !.refs = refs,
                           !.head = IF headMoves /\ detach THEN "detached" ELSE @]]

\* Err(Error::InvariantFailed) returned by commit_working_copy
ErrInvariantFailed(name) == [status |-> "ErrInvariantFailed", name |-> name]

\* Ok(CommitResult), with the warnings the call wrote to stderr on its way
\* (the only ones in the code are for a git command that could not be
\* started, which does not happen here)
CommitResult(change_id, commit_id, operation_id, files_changed, invariants) ==
    [status |-> "Committed", change_id |-> change_id, commit_id |-> commit_id,
     operation_id |-> operation_id, files_changed |-> files_changed,
     invariants |-> invariants, warnings |-> {}]

\* mutant: the whole snapshot is committed
selective_tree_whole(parent_tree, new_tree, files_changed) == new_tree

\* MergedTreeBuilder on the parent tree with the listed paths set from the
\* snapshot
selective_tree(parent_tree, new_tree, files_changed) ==
    [p \in Paths |-> IF p \in Elems(files_changed) THEN new_tree[p]
                     ELSE parent_tree[p]]

\* mutant: the listed paths are looked up before the clean-tree check and an
\* unchanged list is accepted
commit_select_lenient(opts, parent_tree, new_tree) ==
    LET diff == DiffList(parent_tree, new_tree)
        InPaths(f) == opts.paths = None \/ f \in Elems(opts.paths.some)
        kept == SelectSeq(diff, InPaths)
    IN  IF diff = <<>>
        THEN [ok |-> FALSE,
              err |-> ErrRepository("nothing to commit - working tree clean"),
              files |-> <<>>, tree |-> parent_tree]
        ELSE [ok |-> TRUE, err |-> Null, files |-> kept,
              tree |-> IF opts.paths = None THEN new_tree
                       ELSE selective_tree(parent_tree, new_tree, kept)]

\* snapshot diff, clean-tree check and the optional path filter: the files
\* and the tree to commit, or the error returned
commit_select(opts, parent_tree, new_tree) ==
    LET diff == DiffList(parent_tree, new_tree)
        paths == opts.paths.some
        Missing(p) == p \notin Elems(diff) /\ new_tree[p] = 0
        InPaths(f) == f \in Elems(paths)
        kept == SelectSeq(diff, InPaths)
    IN  IF diff = <<>>
        THEN [ok |-> FALSE,
              err |-> ErrRepository("nothing to commit - working tree clean"),
              files |-> <<>>, tree |-> parent_tree]
        ELSE IF opts.paths = None
        THEN [ok |-> TRUE, err |-> Null, files |-> diff, tree |-> new_tree]
        ELSE IF \E k \in 1..Len(paths) : Missing(paths[k])
        THEN [ok |-> FALSE,
              err |-> ErrRepository("path does not exist in the working copy snapshot"),
              files |-> <<>>, tree |-> parent_tree]
        ELSE IF kept = <<>>
        THEN [ok |-> FALSE,
              err |-> ErrRepository("no changes in specified paths"),
              files |-> <<>>, tree |-> parent_tree]
        ELSE [ok |-> TRUE, err |-> Null, files |-> kept,
              tree |-> selective_tree(parent_tree, new_tree, kept)]

\* the status commit_working_copy records for the invariants that ran
commit_invariants_status(invariants) ==
    IF DOMAIN invariants = {} THEN "Skipped"
    ELSE IF \A n \in DOMAIN invariants : invariants[n] = "Passed"
         THEN "Passed"
         ELSE "Failed"

\* the jj-lib transaction of commit_working_copy: the working-copy commit is
\* rewritten with the tree and the message, the bookmark of the current Git
\* branch is set to it, a new empty working-copy commit is created unless
\* no_new, references to the rewritten commit follow it
\* (rebase_descendants), refs are exported, and the operation "commit" is
\* recorded
commit_transaction(r, g, opts, tree, detach) ==
    LET view == r.ops[r.opHead].view
        wc == view.wc
        cid == Len(r.commits) + 1
        committed == [parent |-> r.commits[wc].parent, tree |-> tree,
                      conflict |-> FALSE, change |-> r.commits[wc].change,
                      desc |-> opts.message]
        branch == get_current_git_branch(g)
        set == IF branch = None THEN view.bookmarks
               ELSE [view.bookmarks EXCEPT ![branch.some] = cid]
        cs == IF opts.no_new THEN Append(r.commits, committed)
              ELSE Append(Append(r.commits, committed),
                          [parent |-> cid, tree |-> tree, conflict |-> FALSE,
                           change |-> cid + 1, desc |-> ""])
        rebased == [b \in Branches |-> IF set[b] = wc THEN cid ELSE set[b]]
        exp == export_refs([wc |-> Len(cs), bookmarks |-> rebased,
                            git_refs |-> view.git_refs], g, detach)
        os == Append(r.ops, [parent |-> r.opHead, view |-> exp.view,
                             desc |-> "commit"])
    IN  [repo |-> [ops |-> os, opHead |-> Len(os), commits |-> cs],
         git |-> exp.git,
         committed |-> cid]

\* the Git sync after the transaction: git update-ref of the current branch
\* (looked up again) to the commit, git symbolic-ref HEAD to that branch;
\* g0 is the Git repository as it was before the transaction
git_sync(g0, g, commit) ==
    LET branch == get_current_git_branch(g)
    IN  IF branch = None THEN g
        ELSE [g EXCEPT !.refs[branch.some] = commit, !.head = branch.some]

\* the tree of the parent of the working-copy commit
wc_parent_tree ==
    IF commits[wc_commit_id].parent = 0 THEN EmptyTree
    ELSE commits[commits[wc_commit_id].parent].tree

\* mutant: the invariants run after the transaction
commit_working_copy_lateInvariants(opts, run, detach) ==
    LET sel == commit_select(opts, wc_parent_tree, fs)
        tx == commit_transaction(Repository, git, opts, sel.tree, detach)
    IN  IF ~sel.ok
        THEN [result |-> sel.err, repo |-> Repository, git |-> git,
              typed |-> typed]
        ELSE [result |-> IF run.ok
                         THEN CommitResult(commits[wc_commit_id].change,
                                           tx.committed, tx.repo.opHead,
                                           sel.files, run.results)
                         ELSE ErrInvariantFailed(run.name),
              repo |-> tx.repo,
              git |-> git_sync(git, tx.git, tx.committed),
              typed |-> typed]

\* Repo::commit_working_copy: what it returns and what it leaves behind;
\* `run` is the outcome of the pre-commit invariants
commit_working_copy(opts, run, detach) ==
    LET sel == commit_select(opts, wc_parent_tree, fs)
        tx == commit_transaction(Repository, git, opts, sel.tree, detach)
        change_id == commits[wc_commit_id].change
    IN  IF ~sel.ok
        THEN [result |-> sel.err, repo |-> Repository, git |-> git,
              typed |-> typed]
        ELSE IF ~run.ok
        THEN [result |-> ErrInvariantFailed(run.name), repo |-> Repository,
              git |-> git, typed |-> typed]
        ELSE [result |-> CommitResult(change_id, tx.committed, tx.repo.opHead,
                                      sel.files, run.results),
              repo |-> tx.repo,
              git |-> git_sync(git, tx.git, tx.committed),
              typed |-> save_typed_change(typed,
                            [change_id |-> change_id, files |-> sel.files,
                             invariants |->
                                 [checked |-> DOMAIN run.results,
                                  status |-> commit_invariants_status(run.results),
                                  details |-> run.results]])]

CommitMessages == {"feat: x"}

\* every combination of flags without a path list; with a path list the
\* invariants are left on
CommitOptions ==
    [message : CommitMessages,
     no_new : BOOLEAN,
     run_invariants : BOOLEAN,
     paths : {None}]
    \cup [message : CommitMessages,
          no_new : BOOLEAN,
          run_invariants : {TRUE},
          paths : {Some(<<PSA, PMA>>), Some(<<PB>>)}]

\* commit_working_copy(opts) is called
CommitWorkingCopy(opts) ==
    /\ pc = "ready"
    /\ Len(ops) <= MaxCommits
    /\ \E run \in IF opts.run_invariants /\ has_manifest
                  THEN run_invariants("PreCommit")
                  ELSE {[ok |-> TRUE, results |-> <<>>]},
          detach \in BOOLEAN :
           LET out == commit_working_copy(opts, run, detach)
           IN  /\ result' = out.result
               /\ ops' = out.repo.ops
               /\ opHead' = out.repo.opHead
               /\ commits' = out.repo.commits
               /\ git' = out.git
               /\ typed' = out.typed
               /\ pre' = [op |-> opHead, wc |-> wc_commit_id,
                          commits |-> commits,
                          bookmarks |-> ops[opHead].view.bookmarks,
                          git |-> git,
                          diff |-> DiffList(wc_parent_tree, fs),
                          parent_tree |-> wc_parent_tree,
                          invariants_ok |-> run.ok]
    /\ intent' = opts
    /\ pc' = "committed"
    /\ UNCHANGED <<fs, manifest, tempPatch, loc, fnIn, fnOut>>

\* the caller is done with what commit_working_copy returned
CommitReturn ==
    /\ pc = "committed"
    /\ pc' = "ready"
    /\ intent' = Null
    /\ pre' = Null
    /\ result' = Null
    /\ UNCHANGED <<ops, opHead, commits, fs, manifest, typed, tempPatch, git,
                   loc, fnIn, fnOut>>

\* the user writes or deletes a file of the working directory
EditFile(path, content) ==
    /\ pc = "ready"
    /\ fs[path] # content
    /\ fs' = [fs EXCEPT ![path] = content]
    /\ UNCHANGED <<ops, opHead, commits, manifest, typed, tempPatch, git,
                   pc, intent, pre, loc, result, fnIn, fnOut>>

\* the user runs `git checkout -b <branch>` on a born branch
GitCheckoutNew(branch) ==
    /\ pc = "ready"
    /\ git.head # "detached"
    /\ git.refs[git.head] # 0
    /\ git.refs[branch] = 0
    /\ git' = [git EXCEPT !.refs[branch] = git.refs[git.head], !.head = branch]
    /\ UNCHANGED <<ops, opHead, commits, fs, manifest, typed, tempPatch,
                   pc, intent, pre, loc, result, fnIn, fnOut>>

\* the user runs `git checkout --detach HEAD`
GitDetach ==
    /\ pc = "ready"
    /\ git.head # "detached"
    /\ git.refs[git.head] # 0
    /\ git' = [git EXCEPT !.head = "detached"]
    /\ UNCHANGED <<ops, opHead, commits, fs, manifest, typed, tempPatch,
                   pc, intent, pre, loc, result, fnIn, fnOut>>

\* the manifests commit_working_copy is exercised under: none, and one with
\* pre-commit invariants
CommitManifests ==
    {m \in Manifests : ~m.present \/ \E inv \in m.invariants : inv.simple}

\* the tree of the commit an opened repository may already hold
InitialTree == [EmptyTree EXCEPT ![PB] = 1]

\* a Git repository (main unborn or with one commit, HEAD on main) as the
\* handle finds it: just colocated (one operation, an empty working-copy
\* commit on the root), or after one earlier commit_working_copy of the file
\* b without invariants, of whose operation log the head is kept
InitCommit ==
    /\ manifest \in CommitManifests
    /\ \E main \in {0, GitInitialCommit}, default \in {"", "feat"},
          earlier \in BOOLEAN :
           LET g0 == [refs |-> [b \in Branches |->
                                   IF b = "main" THEN main ELSE 0],
                      head |-> "main", default_branch |-> default]
               r0 == [ops |-> <<[parent |-> 0,
                                 view |-> [wc |-> 1,
                                           bookmarks |-> [b \in Branches |-> 0],
                                           git_refs |-> [b \in Branches |-> 0]],
                                 desc |-> "init"]>>,
                      opHead |-> 1,
                      commits |-> <<[parent |-> 0, tree |-> EmptyTree,
                                     conflict |-> FALSE, change |-> 1,
                                     desc |-> ""]>>]
               tx == commit_transaction(r0, g0,
                         [message |-> "initial", no_new |-> FALSE,
                          run_invariants |-> FALSE, paths |-> None],
                         InitialTree, FALSE)
           IN  IF earlier
               THEN /\ fs = InitialTree
                    /\ commits = tx.repo.commits
                    /\ ops = <<[tx.repo.ops[tx.repo.opHead] EXCEPT !.parent = 0]>>
                    /\ git = git_sync(g0, tx.git, tx.committed)
                    /\ typed = save_typed_change({},
                                   [change_id |-> 1, files |-> <<PB>>,
                                    invariants |->
                                        [checked |-> {}, status |-> "Skipped",
                                         details |-> <<>>]])
               ELSE /\ fs = EmptyTree
                    /\ commits = r0.commits
                    /\ ops = r0.ops
                    /\ git = g0
                    /\ typed = {}
    /\ opHead = 1
    /\ tempPatch = FALSE
    /\ pc = "ready"
    /\ intent = Null
    /\ pre = Null
    /\ loc = Null
    /\ result = Null
    /\ fnIn = Null
    /\ fnOut = Null

NextCommit ==
    \/ \E opts \in CommitOptions : CommitWorkingCopy(opts)
    \/ CommitReturn
    \/ \E path \in Paths, content \in 0..1 : EditFile(path, content)
    \/ \E branch \in Branches : GitCheckoutNew(branch)
    \/ GitDetach

SpecCommit == InitCommit /\ [][NextCommit]_vars

---------------------------------------------------------------------------
(* Properties of Repo::apply *)

\* the typed-change record stored for a change id
TypedRecord(change_id) == CHOOSE t \in typed : t.change_id = change_id

\* C1: when apply returns PreconditionFailed or PermissionDenied the
\* repository is as it was when apply was called: same current operation id,
\* no new commit, same working-copy change, no file written, no typed-change
\* record written.
C1_NoChangeOnDenial ==
    (pc = "returned" /\ result.status \in {"PreconditionFailed", "PermissionDenied"})
        => /\ current_operation_id = pre.op
           /\ Len(ops) = pre.op
           /\ Len(commits) = pre.ncommits
           /\ current_change_id = pre.wc
           /\ fs = pre.fs
           /\ typed = pre.typed

\* C1 witness: apply has returned PermissionDenied for a Files spec
C1_Witness ==
    /\ pc = "returned"
    /\ result.status = "PermissionDenied"
    /\ intent.changes.format = "files"

\* C2: whenever apply returns Conflict or InvariantFailed, its
\* rollback_command is "jj op restore " followed by the operation id that was
\* current before apply created the empty change, also when another
\* operation was appended between the creation and the production of the
\* handle.
C2_RollbackNamesPreMutationOp ==
    (pc = "returned" /\ result.status \in {"Conflict", "InvariantFailed"})
        => result.rollback_command = FormatRollback(pre.op_before_create)

\* C3 (as claimed): after the rollback handle of a Conflict or
\* InvariantFailed result is executed, the current operation id is equal to,
\* or an ancestor of, the operation id that was current before apply was
\* called.
C3_RollbackReturnsToPreOp ==
    pc = "rolledback" => IsAncestorOrEqual(current_operation_id, pre.op)

\* C3 (amended): executing the rollback handle records a new restore
\* operation on top of the operation that was current when the handle was
\* executed; its view is the view of the operation the handle names, and the
\* operation id current before apply is a proper ancestor of the new current
\* operation id.
C3_RollbackRecordsRestore ==
    pc = "rolledback"
        => /\ ops[current_operation_id].parent = pre.op_before_rollback
           /\ ops[current_operation_id].desc = "restore to operation"
           /\ ops[current_operation_id].view =
                  ops[ParseRollback(result.rollback_command)].view
           /\ current_operation_id # pre.op
           /\ IsAncestorOrEqual(pre.op, current_operation_id)

\* C3 witness: the rollback handle of an InvariantFailed result was executed
C3_Witness ==
    /\ pc = "rolledback"
    /\ result.status = "InvariantFailed"

\* C4: when applying the change spec fails inside apply, apply returns an Io
\* or Repository error and the transaction that created the empty change is
\* rolled back: the current operation id and the working-copy change id equal
\* their values before the call.
C4_ChangeSpecFailureRollsBack ==
    (pc = "returned" /\ result.status \in {"Io", "Repository"})
        => /\ current_operation_id = pre.op
           /\ current_change_id = pre.wc

\* an intent's preconditions stated on the repository apply was called on:
\* some required operation id, branch position, present file, absent file or
\* file digest (compared without regard to case) does not hold
AnyPreconditionFails(p, st) ==
    \/ p.operation_id # None /\ p.operation_id.some # st.op
    \/ \E k \in 1..Len(p.branch_at) :
           st.bookmarks[p.branch_at[k][1]] # p.branch_at[k][2]
    \/ \E k \in 1..Len(p.files_exist) : st.fs[p.files_exist[k]] = 0
    \/ \E k \in 1..Len(p.files_absent) : st.fs[p.files_absent[k]] # 0
    \/ \E k \in 1..Len(p.file_hashes) :
           \/ st.fs[p.file_hashes[k][1]] = 0
           \/ to_lowercase(Digest(st.fs[p.file_hashes[k][1]]))
                  # to_lowercase(p.file_hashes[k][2])

\* C5: whenever at least one precondition of the intent fails, apply returns
\* PreconditionFailed, whatever the manifest, the change spec and the later
\* gates would have decided.
C5_PreconditionsDecideFirst ==
    (pc \notin {"idle", "off"} /\ AnyPreconditionFails(intent.preconditions, pre))
        => (pc = "returned" /\ result.status = "PreconditionFailed")

\* C5 witness: PreconditionFailed was returned for an intent whose change
\* spec the manifest denies
C5_Witness ==
    /\ pc = "returned"
    /\ result.status = "PreconditionFailed"
    /\ has_manifest
    /\ check_permissions(intent) # {}

\* C6: every non-success result that carries a change_id (Conflict,
\* InvariantFailed, RequiresReview) has a rollback handle:
\* rollback_command() is Some.
C6_CreatedStateHasRollback ==
    (/\ pc = "returned"
     /\ result.status \in {"PreconditionFailed", "Conflict", "InvariantFailed",
                           "PermissionDenied", "RequiresReview"}
     /\ change_id_of(result) # None)
        => rollback_command_of(result) # None

\* C7: for every Success, each path of files_changed is a path of the tree
\* diff between the parent tree and the tree of the change the result names.
C7_FilesChangedInTreeDiff ==
    (pc = "returned" /\ result.status = "Success")
        => Elems(result.files_changed)
               \subseteq TreeDiff(commits[commits[result.change_id].parent].tree,
                                  commits[result.change_id].tree)

\* C8: the typed-change record written on Success has invariants.status
\* Passed iff at least one invariant ran and all passed, Skipped if none ran,
\* Failed otherwise.
C8_TypedChangeStatus ==
    (pc = "returned" /\ result.status = "Success")
        => TypedRecord(result.change_id).invariants.status =
               IF DOMAIN result.invariants = {} THEN "Skipped"
               ELSE IF \A n \in DOMAIN result.invariants :
                           result.invariants[n] = "Passed"
                    THEN "Passed"
                    ELSE "Failed"

---------------------------------------------------------------------------
(* Properties of the permission evaluators and the glob matcher *)

\* C9: can_change(path) is true exactly when no deny_change glob matches the
\* path and (allow_change is empty or some allow_change glob matches it);
\* can_push(branch) is the same over deny_push/allow_push.  A name matched by
\* both an allow and a deny glob is refused.
C9_DenyWinsOverAllow ==
    fnOut # Null =>
        LET perm == fnIn.permissions
            allow == IF fnOut.fn = "can_change" THEN perm.allow_change
                     ELSE perm.allow_push
            deny == IF fnOut.fn = "can_change" THEN perm.deny_change
                    ELSE perm.deny_push
            denied == \E g \in Elems(deny) : glob_match(g, fnIn.name)
            allowed == \E g \in Elems(allow) : glob_match(g, fnIn.name)
        IN  fnOut.allowed = (~denied /\ (allow = <<>> \/ allowed))

\* C9 witness: can_change refused a path that an allow glob and a deny glob
\* both match
C9_Witness ==
    /\ fnOut # Null
    /\ fnOut.fn = "can_change"
    /\ \E g \in Elems(fnIn.permissions.allow_change) : glob_match(g, fnIn.name)
    /\ \E g \in Elems(fnIn.permissions.deny_change) : glob_match(g, fnIn.name)
    /\ ~fnOut.allowed

\* the number of `*` in a pattern
Stars(pattern) == Cardinality({k \in 1..Len(pattern) : pattern[k] = "*"})

\* C10 (as claimed): the matcher agrees with the table for every pattern:
\* `**` matches every path; `prefix/**` matches exactly the paths that start
\* with `prefix`, whatever the prefix is; `a*b` with one `*` matches exactly
\* the paths that start with `a` and end with `b`; a pattern without `*`
\* matches exactly itself.
C10_GlobTableAnyPrefix ==
    fnOut # Null =>
        LET P == fnIn.pattern
            S == fnIn.path
            prefix == SubSeq(P, 1, Len(P) - 3)
            star == CHOOSE k \in 1..Len(P) : P[k] = "*"
        IN  /\ P = StarStar => fnOut.matched
            /\ EndsWith(P, SlashStarStar)
                   => (fnOut.matched <=> StartsWith(S, prefix))
            /\ Stars(P) = 1
                   => (fnOut.matched <=>
                          /\ StartsWith(S, SubSeq(P, 1, star - 1))
                          /\ EndsWith(S, SubSeq(P, star + 1, Len(P))))
            /\ Stars(P) = 0 => (fnOut.matched <=> S = P)

\* C10 (amended): the matcher agrees with the table when the prefix of
\* `prefix/**` does not itself end in `**`: `**` matches every path;
\* `prefix/**` matches exactly the paths that start with `prefix`; `a*b`
\* with one `*` matches exactly the paths that start with `a` and end with
\* `b`; a pattern without `*` matches exactly itself.
C10_GlobTable ==
    fnOut # Null =>
        LET P == fnIn.pattern
            S == fnIn.path
            prefix == SubSeq(P, 1, Len(P) - 3)
            star == CHOOSE k \in 1..Len(P) : P[k] = "*"
        IN  /\ P = StarStar => fnOut.matched
            /\ (EndsWith(P, SlashStarStar) /\ ~EndsWith(prefix, StarStar))
                   => (fnOut.matched <=> StartsWith(S, prefix))
            /\ Stars(P) = 1
                   => (fnOut.matched <=>
                          /\ StartsWith(S, SubSeq(P, 1, star - 1))
                          /\ EndsWith(S, SubSeq(P, star + 1, Len(P))))
            /\ Stars(P) = 0 => (fnOut.matched <=> S = P)

\* C10 witness: `a/**` was matched against a path that starts with `a` and
\* has no `/` after it
C10_Witness ==
    /\ fnOut # Null
    /\ fnIn.pattern = <<"a", "/", "*", "*">>
    /\ fnIn.path = <<"a", "b">>
    /\ fnOut.matched

---------------------------------------------------------------------------
(* Further properties of the glob matcher, the gates and the result *)

\* C11: a single `*` matches characters inside one path segment only: when
\* a pattern with one `*` matches a path, the part of the path the `*`
\* stands for contains no `/`.
C11_StarStaysInSegment ==
    (fnOut # Null /\ Stars(fnIn.pattern) = 1 /\ fnOut.matched)
        => LET P == fnIn.pattern
               S == fnIn.path
               star == CHOOSE k \in 1..Len(P) : P[k] = "*"
               middle == SubSeq(S, star, Len(S) - (Len(P) - star))
           IN  \A k \in 1..Len(middle) : middle[k] # "/"

\* the intent of the call in progress has a file-hash precondition and no
\* other precondition
OnlyFileHash ==
    /\ pc \notin {"idle", "off"}
    /\ intent.preconditions.file_hashes # <<>>
    /\ SetFields(intent.preconditions) = 1

\* C12: the file-hash precondition compares the digest of the file with the
\* expected hex string without regard to case: a missing file gives
\* PreconditionFailed "not found", the file's digest in lowercase or
\* uppercase passes, any other expected value gives PreconditionFailed
\* "hash mismatch".
C12_FileHashIgnoresCase ==
    OnlyFileHash =>
        LET e == intent.preconditions.file_hashes[1]
            content == pre.fs[e[1]]
            failed == pc = "returned" /\ result.status = "PreconditionFailed"
        IN  /\ content = 0
                => failed /\ result.reason.msg = "file not found for hash check"
            /\ (content # 0 /\ to_lowercase(e[2]) = Digest(content))
                => ~failed
            /\ (content # 0 /\ to_lowercase(e[2]) # Digest(content))
                => failed /\ result.reason.msg = "file hash mismatch"

\* C12 witness: the digest written in uppercase passed the gate
C12_Witness ==
    /\ OnlyFileHash
    /\ pc = "returned"
    /\ result.status \in {"Success", "RequiresReview", "InvariantFailed"}
    /\ intent.preconditions.file_hashes[1][2] = <<"A", "1">>

\* C13 (as claimed): apply with a Files spec whose operation list is empty
\* and preconditions that hold leaves every file as it was and returns
\* Success with files_changed = [].
C13_EmptyFilesIsSuccess ==
    (/\ pc = "returned"
     /\ intent.changes = Files(<<>>)
     /\ ~AnyPreconditionFails(intent.preconditions, pre))
        => /\ fs = pre.fs
           /\ result.status = "Success"
           /\ result.files_changed = <<>>

\* C13 (amended): apply with a Files spec whose operation list is empty and
\* preconditions that hold leaves every file as it was; it returns Conflict
\* when the created change has conflicts, InvariantFailed when a pre-commit
\* invariant fails, and otherwise Success with files_changed = [].
C13_EmptyFilesWritesNothing ==
    (/\ pc = "returned"
     /\ intent.changes = Files(<<>>)
     /\ ~AnyPreconditionFails(intent.preconditions, pre))
        => /\ fs = pre.fs
           /\ result.status \in {"Success", "Conflict", "InvariantFailed"}
           /\ result.status = "Conflict" <=> has_conflicts(result.change_id)
           /\ result.status = "InvariantFailed"
                  => /\ intent.run_invariants /\ has_manifest
                     /\ \E inv \in invariants_for(manifest, "PreCommit") :
                            inv.name = result.invariant
           /\ result.status = "Success" => result.files_changed = <<>>

\* C13 witness: Success was returned for an empty Files spec
C13_Witness ==
    /\ pc = "returned"
    /\ intent.changes = Files(<<>>)
    /\ result.status = "Success"
    /\ result.files_changed = <<>>

\* C14: a Success has a non-empty files_changed whenever the change spec
\* modified at least one file of the working directory, for Patch, PatchFile
\* and Files specs alike.
C14_ChangedFilesAreListed ==
    (pc = "returned" /\ result.status = "Success" /\ fs # pre.fs)
        => result.files_changed # <<>>

\* C15: invariants_for(trigger) returns exactly the invariants of the
\* manifest whose trigger list is empty or contains the trigger; a
\* command-only invariant is returned for every trigger.
C15_InvariantsForTrigger ==
    fnOut # Null =>
        /\ fnOut.selected =
               {inv \in fnIn.manifest.invariants :
                    (inv.simple \/ inv.on = {}) \/ fnIn.trigger \in inv.on}
        /\ \A inv \in fnIn.manifest.invariants :
               inv.simple => inv \in fnOut.selected

\* C15 witness: a command-only invariant was selected while a full invariant
\* listing other triggers was left out
C15_Witness ==
    /\ fnOut # Null
    /\ \E inv \in fnOut.selected : inv.simple
    /\ \E inv \in fnIn.manifest.invariants :
           inv \notin fnOut.selected /\ inv.on # {}

---------------------------------------------------------------------------
(* Properties of Repo::commit_working_copy *)

\* C16: when a pre-commit invariant exits non-zero during
\* commit_working_copy, the call fails with InvariantFailed and no commit is
\* made: the operation id, the working-copy commit and every Git branch ref
\* are as before the call, and the commit store is as before, so that the
\* attempted message is in no commit it was not in already.
C16_InvariantFailureCommitsNothing ==
    (pc = "committed" /\ ~pre.invariants_ok /\ result.status # "Repository")
        => /\ result.status = "ErrInvariantFailed"
           /\ opHead = pre.op
           /\ wc_commit_id = pre.wc
           /\ commits = pre.commits
           /\ git.refs = pre.git.refs
           /\ \A c \in DOMAIN commits :
                  commits[c].desc = intent.message
                      => c \in DOMAIN pre.commits
                         /\ pre.commits[c].desc = intent.message

\* C16 witness: a commit of a changed file was refused for a failed invariant
C16_Witness ==
    /\ pc = "committed"
    /\ ~pre.invariants_ok
    /\ result.status = "ErrInvariantFailed"
    /\ pre.diff # <<>>

C18_PathListErrors ==
    (pc = "committed" /\ intent.paths # None)
        => LET listed == Elems(intent.paths.some)
               Missing(p) == p \notin Elems(pre.diff) /\ fs[p] = 0
           IN  /\ (\E p \in listed : Missing(p))
                      => /\ result = ErrRepository("path does not exist in the working copy snapshot")
                         /\ opHead = pre.op
               /\ ((\A p \in listed : fs[p] # 0)
                       /\ listed \cap Elems(pre.diff) = {})
                      => /\ result = ErrRepository("no changes in specified paths")
                         /\ opHead = pre.op

\* C18 amended: the same, when the snapshot differs from the parent tree
\* (a clean working tree is refused as "nothing to commit" before the list
\* is looked at).
C18_PathListErrorsWhenDirty ==
    (pc = "committed" /\ intent.paths # None /\ pre.diff # <<>>)
        => LET listed == Elems(intent.paths.some)
               Missing(p) == p \notin Elems(pre.diff) /\ fs[p] = 0
           IN  /\ (\E p \in listed : Missing(p))
                      => /\ result = ErrRepository("path does not exist in the working copy snapshot")
                         /\ opHead = pre.op
                         /\ commits = pre.commits
               /\ ((\A p \in listed : fs[p] # 0)
                       /\ listed \cap Elems(pre.diff) = {})
                      => /\ result = ErrRepository("no changes in specified paths")
                         /\ opHead = pre.op
                         /\ commits = pre.commits

\* C18 witness: with another file changed, a list of one existing unchanged
\* file was refused with "no changes"
C18_Witness ==
    /\ pc = "committed"
    /\ intent.paths # None
    /\ pre.diff # <<>>
    /\ \A p \in Elems(intent.paths.some) : fs[p] # 0
    /\ result = ErrRepository("no changes in specified paths")

\* C18 witness of the other error: a listed path that is not in the snapshot
C18_WitnessMissing ==
    /\ pc = "committed"
    /\ intent.paths # None
    /\ pre.diff # <<>>
    /\ result = ErrRepository("path does not exist in the working copy snapshot")

\* C19: a commit made while Git HEAD is attached to a branch other than main
\* moves only that branch: main and every other branch ref point to the same
\* commit after commit_working_copy as before.
C19_OnlyCurrentBranchMoves ==
    (pc = "committed" /\ result.status = "Committed"
         /\ pre.git.head \notin {"detached", "main"})
        => \A b \in Branches \ {pre.git.head} : git.refs[b] = pre.git.refs[b]

\* C20: when Git HEAD is detached, commit_working_copy succeeds, warns that
\* HEAD is detached and skips the Git branch sync: no branch ref is moved and
\* HEAD is not attached to any branch.
C20_DetachedHeadSkipsSync ==
    (pc = "committed" /\ pre.git.head = "detached" /\ pre.diff # <<>>
         /\ intent.paths = None /\ ~intent.run_invariants)
        => /\ result.status = "Committed"
           /\ "HEAD is detached" \in result.warnings
           /\ git.refs = pre.git.refs
           /\ git.head = "detached"

\* the commits `git log <c>` lists: c and the commits c descends from (the
\* root commit of the store, parent 0, is no Git commit's parent)
RECURSIVE GitLog(_)
GitLog(c) ==
    IF c = 0 THEN {}
    ELSE IF c = GitInitialCommit THEN {GitInitialCommit}
    ELSE {c} \cup GitLog(commits[c].parent)

\* C21: after a plain Git repository that has commits is colocated, the
\* first commit made through commit_working_copy has the prior Git HEAD
\* commit as an ancestor: the new commit and the original Git commit are
\* both reachable from Git HEAD.
C21_FirstCommitKeepsGitHistory ==
    (pc = "committed" /\ result.status = "Committed"
         /\ Len(pre.commits) = 1
         /\ pre.git.head # "detached"
         /\ pre.git.refs[pre.git.head] = GitInitialCommit
         /\ git.head # "detached")
        => /\ result.commit_id \in GitLog(git.refs[git.head])
           /\ GitInitialCommit \in GitLog(git.refs[git.head])

---------------------------------------------------------------------------
(* Repo::discover, init_colocated_git, ensure_jj_gitignored (src/src/repo.rs) *)

\* The directories from the current one (1) up to the root (MaxDepth), each
\* with whether it holds .jj and .git and with its .gitignore: the lines of
\* the file and whether the file ends with a newline (no file reads as the
\* empty content).
IgnoreLines ==
    {<<".", "j", "j">>, <<".", "j", "j", "/">>, <<"/", ".", "j", "j">>,
     <<"/", ".", "j", "j", "/">>, <<" ", ".", "j", "j", "/">>, <<"j", "j">>}

JjLine == <<".", "j", "j", "/">>

NoIgnore == [lines |-> <<>>, nl |-> FALSE]

\* str::trim on a line of spaces and other characters
RECURSIVE Trim(_)
Trim(s) ==
    IF s = <<>> THEN s
    ELSE IF Head(s) = " " THEN Trim(Tail(s))
    ELSE IF s[Len(s)] = " " THEN Trim(SubSeq(s, 1, Len(s) - 1))
    ELSE s

\* mutant: the line is added whatever the file holds
ensure_jj_gitignored_always(content, write_ok) ==
    IF write_ok THEN [lines |-> Append(content.lines, JjLine), nl |-> TRUE]
    ELSE content

\* ensure_jj_gitignored: the new content of the .gitignore; with a content
\* that is empty or ends in a newline the line is appended, else a newline
\* and the line, which gives the same lines; write_ok is whether fs::write
\* succeeded
ensure_jj_gitignored(content, write_ok) ==
    LET already_ignored ==
            \E i \in 1..Len(content.lines) :
                Trim(content.lines[i]) \in
                    {<<".", "j", "j">>, <<".", "j", "j", "/">>,
                     <<"/", ".", "j", "j">>, <<"/", ".", "j", "j", "/">>}
    IN  IF ~already_ignored /\ write_ok
        THEN [lines |-> Append(content.lines, JjLine), nl |-> TRUE]
        ELSE content

\* init_colocated_git: .jj is created beside .git, the ignore file is seen
\* to, the repository is opened
init_colocated_git(disk, d, write_ok) ==
    [result |-> [status |-> "Ok", root |-> d],
     disk |-> [disk EXCEPT ![d].jj = TRUE,
                           ![d].ignore = ensure_jj_gitignored(@, write_ok)]]

\* the loop of discover from directory d upwards; found is the first
\* directory seen with .git and without .jj (0: none yet)
RECURSIVE discover_from(_, _, _, _)
discover_from(disk, d, found, write_ok) ==
    IF disk[d].jj THEN [result |-> [status |-> "Ok", root |-> d], disk |-> disk]
    ELSE LET git_dir == IF disk[d].git /\ found = 0 THEN d ELSE found
         IN  IF d < Len(disk)
             THEN discover_from(disk, d + 1, git_dir, write_ok)
             ELSE IF git_dir # 0
                  THEN init_colocated_git(disk, git_dir, write_ok)
                  ELSE [result |-> ErrRepository("No git or jj repository found (or any parent)"),
                        disk |-> disk]

discover(disk, write_ok) == discover_from(disk, 1, 0, write_ok)

IgnoreFiles ==
    {[lines |-> ls, nl |-> nl] :
        ls \in UNION {[1..n -> IgnoreLines] : n \in 0..MaxListLen},
        nl \in BOOLEAN}
    \ {[lines |-> <<>>, nl |-> TRUE]}

\* any layout of .jj and .git over the directories; the ignore file of the
\* nearest directory with .git is any file, the others have none
InitDiscover ==
    /\ EngineOff
    /\ \E layout \in [1..MaxDepth -> [jj : BOOLEAN, git : BOOLEAN]],
          content \in IgnoreFiles :
           LET Nearest(d) == layout[d].git /\ \A e \in 1..(d - 1) : ~layout[e].git
           IN  fnIn = [d \in 1..MaxDepth |->
                          [jj |-> layout[d].jj, git |-> layout[d].git,
                           ignore |-> IF Nearest(d) THEN content ELSE NoIgnore]]
    /\ fnOut = [calls |-> 0, result |-> Null, before |-> Null, first |-> Null]

\* Repo::discover is called from the current directory; `first` keeps the
\* disk the first call found
Discover ==
    /\ fnOut.calls < MaxCalls
    /\ \E write_ok \in BOOLEAN :
           LET out == discover(fnIn, write_ok)
           IN  /\ fnIn' = out.disk
               /\ fnOut' = [calls |-> fnOut.calls + 1, result |-> out.result,
                            before |-> fnIn,
                            first |-> IF fnOut.calls = 0 THEN fnIn
                                      ELSE fnOut.first]
    /\ UNCHANGED engineVars

NextDiscover == Discover

SpecDiscover == InitDiscover /\ [][NextDiscover]_vars

\* C22: Repo::discover is idempotent: a second call from the same directory
\* changes nothing on disk (no .jj created, no line added to an ignore
\* file), and the ignore-file step adds the line .jj/ only when none of
\* .jj, .jj/, /.jj, /.jj/ is already a line of the file.
C22_DiscoverIdempotent ==
    /\ fnOut.calls >= 2 => fnIn = fnOut.before
    /\ fnOut.calls >= 1 =>
           \A d \in 1..MaxDepth :
               fnIn[d].ignore # fnOut.before[d].ignore
                   => /\ fnIn[d].ignore.lines =
                             Append(fnOut.before[d].ignore.lines, JjLine)
                      /\ \A i \in 1..Len(fnOut.before[d].ignore.lines) :
                             fnOut.before[d].ignore.lines[i] \notin
                                 {<<".", "j", "j">>, <<".", "j", "j", "/">>,
                                  <<"/", ".", "j", "j">>,
                                  <<"/", ".", "j", "j", "/">>}

\* C22 witness: the first call colocated a Git repository and added the
\* line to an ignore file that had other lines, and a second call was made
C22_Witness ==
    /\ fnOut.calls = 2
    /\ \E d \in 1..MaxDepth :
           /\ ~fnOut.first[d].jj /\ fnIn[d].jj
           /\ fnOut.first[d].ignore.lines # <<>>
           /\ fnIn[d].ignore # fnOut.first[d].ignore

---------------------------------------------------------------------------
(* Checkpoints and undo: cmd_checkpoint, cmd_checkpoint_list, cmd_undo,   *)
(* chrono_lite_now (src/src/main.rs), Repo::operation_log (src/src/repo.rs) *)

is_leap_year(year) ==
    (year % 4 = 0 /\ year % 100 # 0) \/ (year % 400 = 0)

\* the loop over the years: [year, remaining_days]
RECURSIVE YearOfDays(_, _)
YearOfDays(year, remaining_days) ==
    LET days_in_year == IF is_leap_year(year) THEN 366 ELSE 365
    IN  IF remaining_days < days_in_year
        THEN [year |-> year, remaining_days |-> remaining_days]
        ELSE YearOfDays(year + 1, remaining_days - days_in_year)

\* the loop over the months: [month, remaining_days]
RECURSIVE MonthOfDays(_, _, _)
MonthOfDays(days_in_months, month, remaining_days) ==
    IF month > 12 \/ remaining_days < days_in_months[month]
    THEN [month |-> month, remaining_days |-> remaining_days]
    ELSE MonthOfDays(days_in_months, month + 1,
                     remaining_days - days_in_months[month])

DigitChars == <<"0", "1", "2", "3", "4", "5", "6", "7", "8", "9">>

\* format!("{:0w}", n) for n below 10^w
Pad(n, w) == [i \in 1..w |-> DigitChars[((n \div (10 ^ (w - i))) % 10) + 1]]

\* chrono_lite_now for the system time secs (seconds since the epoch)
chrono_lite_now(secs) ==
    LET days == secs \div 86400
        time_secs == secs % 86400
        hours == time_secs \div 3600
        minutes == (time_secs % 3600) \div 60
        seconds == time_secs % 60
        y == YearOfDays(1970, days)
        days_in_months ==
            IF is_leap_year(y.year)
            THEN <<31, 29, 31, 30, 31, 30, 31, 31, 30, 31, 30, 31>>
            ELSE <<31, 28, 31, 30, 31, 30, 31, 31, 30, 31, 30, 31>>
        m == MonthOfDays(days_in_months, 1, y.remaining_days)
        day == m.remaining_days + 1
    IN  Pad(y.year, 4) \o <<"-">> \o Pad(m.month, 2) \o <<"-">>
        \o Pad(day, 2) \o <<"T">> \o Pad(hours, 2) \o <<":">>
        \o Pad(minutes, 2) \o <<":">> \o Pad(seconds, 2) \o <<"Z">>

\* the byte of a character of a timestamp
Byte(c) ==
    CASE c = "-" -> 45
      [] c = ":" -> 58
      [] c = "T" -> 84
      [] c = "Z" -> 90
      [] OTHER -> 48 + (CHOOSE d \in 0..9 : DigitChars[d + 1] = c)

\* str::cmp(a, b) = Less
StrLess(a, b) ==
    \E i \in 1..Len(b) :
        /\ \A k \in 1..(i - 1) : k <= Len(a) /\ a[k] = b[k]
        /\ (i > Len(a) \/ (a[i] # b[i] /\ Byte(a[i]) < Byte(b[i])))

\* cmd_checkpoint: the record written to .agent/checkpoints/<name>.json
checkpoint_record(r, name, now) ==
    [name |-> name,
     change_id |-> r.ops[r.opHead].view.wc,
     operation_id |-> r.opHead,
     created_at |-> chrono_lite_now(now)]

\* mutant: the list is sorted ascending
sort_checkpoints_ascending(checkpoints) ==
    LET RECURSIVE Sorted(_)
        Sorted(n) ==
            IF n = 0 THEN <<>>
            ELSE LET done == Sorted(n - 1)
                     x == checkpoints[n]
                     Before(i) == ~StrLess(x.created_at, done[i].created_at)
                     k == Cardinality({i \in 1..Len(done) : Before(i)})
                 IN  SubSeq(done, 1, k) \o <<x>> \o SubSeq(done, k + 1, Len(done))
    IN  Sorted(Len(checkpoints))

\* checkpoints.sort_by(|a, b| b_time.cmp(a_time)): a stable sort, descending
\* by created_at; each element goes behind those that do not compare less
sort_checkpoints(checkpoints) ==
    LET RECURSIVE Sorted(_)
        Sorted(n) ==
            IF n = 0 THEN <<>>
            ELSE LET done == Sorted(n - 1)
                     x == checkpoints[n]
                     Before(i) == ~StrLess(done[i].created_at, x.created_at)
                     k == Cardinality({i \in 1..Len(done) : Before(i)})
                 IN  SubSeq(done, 1, k) \o <<x>> \o SubSeq(done, k + 1, Len(done))
    IN  Sorted(Len(checkpoints))

\* Repo::operation_log(limit): the head operation and its first parents,
\* newest first, at most limit of them
RECURSIVE operation_log_from(_, _, _)
operation_log_from(r, op, limit) ==
    IF op = 0 \/ limit = 0 THEN <<>>
    ELSE <<[id |-> op, description |-> r.ops[op].desc]>>
         \o operation_log_from(r, r.ops[op].parent, limit - 1)

\* mutant: the log leaves out the restore operations
operation_log_skipRestores(r, limit) ==
    LET NotRestore(e) == e.description # "restore to operation"
        sel == SelectSeq(operation_log_from(r, r.opHead, Len(r.ops)), NotRestore)
    IN  SubSeq(sel, 1, IF limit < Len(sel) THEN limit ELSE Len(sel))

operation_log(r, limit) == operation_log_from(r, r.opHead, limit)

ErrAnyhow(message) == [status |-> "Err", message |-> message]

\* mutant of cmd_undo: --to restores the parent of the recorded operation
cmd_undo_toParent(r, files, steps, to, dry_run) ==
    LET operations == operation_log(r, steps + 1)
        ParentOf(op) == IF r.ops[op].parent = 0 THEN op ELSE r.ops[op].parent
    IN  IF to # None
        THEN IF files[to.some] = Null
             THEN [result |-> ErrAnyhow("Checkpoint not found"), repo |-> r]
             ELSE IF dry_run
             THEN [result |-> [status |-> "DryRun",
                               would_restore_to |-> files[to.some].operation_id],
                   repo |-> r]
             ELSE [result |-> [status |-> "Ok",
                               restored_to |-> files[to.some].operation_id],
                   repo |-> restore_operation(r,
                                ParentOf(files[to.some].operation_id))]
        ELSE IF Len(operations) <= steps
        THEN [result |-> ErrAnyhow("Not enough operations to undo steps"),
              repo |-> r]
        ELSE IF dry_run
        THEN [result |-> [status |-> "DryRun",
                          would_restore_to |-> operations[steps + 1].id],
              repo |-> r]
        ELSE [result |-> [status |-> "Ok",
                          restored_to |-> operations[steps + 1].id],
              repo |-> restore_operation(r, operations[steps + 1].id)]

\* mutant of cmd_undo: only `steps` operations are fetched and the oldest
\* of them is restored
cmd_undo_oneLess(r, files, steps, to, dry_run) ==
    LET operations == operation_log(r, steps)
    IN  IF to # None
        THEN IF files[to.some] = Null
             THEN [result |-> ErrAnyhow("Checkpoint not found"), repo |-> r]
             ELSE IF dry_run
             THEN [result |-> [status |-> "DryRun",
                               would_restore_to |-> files[to.some].operation_id],
                   repo |-> r]
             ELSE [result |-> [status |-> "Ok",
                               restored_to |-> files[to.some].operation_id],
                   repo |-> restore_operation(r, files[to.some].operation_id)]
        ELSE IF Len(operations) < steps \/ steps = 0
        THEN [result |-> ErrAnyhow("Not enough operations to undo steps"),
              repo |-> r]
        ELSE IF dry_run
        THEN [result |-> [status |-> "DryRun",
                          would_restore_to |-> operations[steps].id],
              repo |-> r]
        ELSE [result |-> [status |-> "Ok",
                          restored_to |-> operations[steps].id],
              repo |-> restore_operation(r, operations[steps].id)]

\* cmd_undo(steps, to, dry_run) on the repository r with the checkpoint
\* files: what it reports and the repository it leaves
cmd_undo(r, files, steps, to, dry_run) ==
    LET operations == operation_log(r, steps + 1)
    IN  IF to # None
        THEN IF files[to.some] = Null
             THEN [result |-> ErrAnyhow("Checkpoint not found"), repo |-> r]
             ELSE IF dry_run
             THEN [result |-> [status |-> "DryRun",
                               would_restore_to |-> files[to.some].operation_id],
                   repo |-> r]
             ELSE [result |-> [status |-> "Ok",
                               restored_to |-> files[to.some].operation_id],
                   repo |-> restore_operation(r, files[to.some].operation_id)]
        ELSE IF Len(operations) <= steps
        THEN [result |-> ErrAnyhow("Not enough operations to undo steps"),
              repo |-> r]
        ELSE IF dry_run
        THEN [result |-> [status |-> "DryRun",
                          would_restore_to |-> operations[steps + 1].id],
              repo |-> r]
        ELSE [result |-> [status |-> "Ok",
                          restored_to |-> operations[steps + 1].id],
              repo |-> restore_operation(r, operations[steps + 1].id)]

CheckpointNames == {"X", "Y", "Z"}

\* system times at which checkpoints are made: around a minute, a day, the
\* end of February of a leap year and the end of a year
CheckpointTimes == {59, 60, 86399, 86400, 68255999, 68256000, 94694399}

NoCheckpoints == [n \in CheckpointNames |-> Null]

\* a repository with one operation and no checkpoint
InitCheckpoint ==
    /\ fs = EmptyTree
    /\ manifest = NoManifest
    /\ commits = <<[parent |-> 0, tree |-> EmptyTree, conflict |-> FALSE]>>
    /\ ops = <<[parent |-> 0,
                view |-> [wc |-> 1, bookmarks |-> [b \in Branches |-> 0]],
                desc |-> "init"]>>
    /\ opHead = 1
    /\ typed = {}
    /\ tempPatch = FALSE
    /\ git = NoGit
    /\ pc = "idle"
    /\ intent = Null
    /\ pre = Null
    /\ loc = Null
    /\ result = Null
    /\ fnIn = NoCheckpoints
    /\ fnOut = Null

\* `agentjj checkpoint <name>` at system time now
Checkpoint(name, now) ==
    /\ fnIn' = [fnIn EXCEPT ![name] = checkpoint_record(Repository, name, now)]
    /\ fnOut' = Null
    /\ UNCHANGED engineVars

\* `agentjj checkpoint list`; order is the order read_dir yields the files in
CheckpointList(order) ==
    /\ fnOut' = [cmd |-> "list", order |-> order,
                 checkpoints |-> sort_checkpoints([i \in 1..Len(order) |->
                                                      fnIn[order[i]]])]
    /\ UNCHANGED <<engineVars, fnIn>>

\* `agentjj undo [--steps n] [--to name] [--dry-run]`; the command run just
\* before it, when that was an undo too, is noted in `prior`
Undo(steps, to, dry_run) ==
    /\ Len(ops) < MaxOps
    /\ LET out == cmd_undo(Repository, fnIn, steps, to, dry_run)
       IN  /\ ops' = out.repo.ops
           /\ opHead' = out.repo.opHead
           /\ commits' = out.repo.commits
           /\ fnOut' = [cmd |-> "undo", steps |-> steps, to |-> to,
                        dry_run |-> dry_run, result |-> out.result,
                        before |-> Repository,
                        prior |-> IF fnOut # Null /\ fnOut.cmd = "undo"
                                  THEN Some([steps |-> fnOut.steps,
                                             to |-> fnOut.to,
                                             dry_run |-> fnOut.dry_run,
                                             status |-> fnOut.result.status,
                                             opHead |-> fnOut.before.opHead])
                                  ELSE None]
    /\ UNCHANGED <<fs, manifest, typed, tempPatch, git, pc, intent, pre, loc,
                   result, fnIn>>

\* an operation between checkpoints and undos: Repo::new_change
UndoNewChange ==
    /\ Len(ops) < MaxOps
    /\ LET r == create_new_change(Repository)
       IN  /\ ops' = r.ops
           /\ opHead' = r.opHead
           /\ commits' = r.commits
    /\ fnOut' = Null
    /\ UNCHANGED <<fs, manifest, typed, tempPatch, git, pc, intent, pre, loc,
                   result, fnIn>>

\* the orders read_dir may yield the existing checkpoint files in
ReadDirOrders ==
    LET present == {n \in CheckpointNames : fnIn[n] # Null}
    IN  {o \in [1..Cardinality(present) -> present] :
            \A i, k \in 1..Cardinality(present) : i # k => o[i] # o[k]}

\* checkpoints and undos on a repository that changes in between
NextUndo ==
    \/ \E name \in {"X", "Y"} : Checkpoint(name, 60)
    \/ \E steps \in 0..MaxOps, dry_run \in BOOLEAN : Undo(steps, None, dry_run)
    \/ \E name \in {"X", "Y"}, dry_run \in BOOLEAN : Undo(1, Some(name), dry_run)
    \/ UndoNewChange

SpecUndo == InitCheckpoint /\ [][NextUndo]_vars

\* checkpoints made at any of the times, and listed
NextList ==
    \/ \E name \in CheckpointNames, now \in CheckpointTimes : Checkpoint(name, now)
    \/ \E order \in ReadDirOrders : CheckpointList(order)

SpecList == InitCheckpoint /\ [][NextList]_vars

---------------------------------------------------------------------------
(* Properties of checkpoints and undo *)

\* C23 as claimed: after `checkpoint X`, any operations and `undo --to X`,
\* the current change id and the current operation id are those recorded
\* in X.
C23_UndoToRestoresIds ==
    (fnOut # Null /\ fnOut.cmd = "undo" /\ fnOut.to # None
         /\ fnOut.result.status = "Ok")
        => /\ current_change_id = fnIn[fnOut.to.some].change_id
           /\ current_operation_id = fnIn[fnOut.to.some].operation_id

\* C23 amended: after `checkpoint X`, any operations and `undo --to X`, the
\* current change id is the one recorded in X and the current operation is
\* a new operation "restore to operation", child of the operation that was
\* current before the undo, whose view is the view of the operation
\* recorded in X.
C23_UndoToRestoresView ==
    (fnOut # Null /\ fnOut.cmd = "undo" /\ fnOut.to # None
         /\ fnOut.result.status = "Ok")
        => LET X == fnIn[fnOut.to.some]
           IN  /\ current_change_id = X.change_id
               /\ ops[opHead].view = ops[X.operation_id].view
               /\ opHead = Len(fnOut.before.ops) + 1
               /\ ops[opHead].parent = fnOut.before.opHead
               /\ ops[opHead].desc = "restore to operation"
               /\ SubSeq(ops, 1, Len(fnOut.before.ops)) = fnOut.before.ops

\* C23 witness: an undo to a checkpoint made before the change and the
\* operation that were current when the undo ran
C23_Witness ==
    /\ fnOut # Null /\ fnOut.cmd = "undo" /\ fnOut.to # None
    /\ fnOut.result.status = "Ok"
    /\ fnOut.before.opHead # fnIn[fnOut.to.some].operation_id
    /\ fnOut.before.ops[fnOut.before.opHead].view.wc
           # fnIn[fnOut.to.some].change_id

\* the operation n first-parent steps before op (0 past the first one)
RECURSIVE NthParent(_, _, _)
NthParent(r, op, n) ==
    IF op = 0 \/ n = 0 THEN op ELSE NthParent(r, r.ops[op].parent, n - 1)

\* C24: undo(n) fetches the n+1 newest operations newest first and restores
\* to the last of them, the operation n steps before the head; when the
\* operation log has n or fewer entries it fails with "Not enough
\* operations" and the repository is unchanged.
C24_UndoSteps ==
    (fnOut # Null /\ fnOut.cmd = "undo" /\ fnOut.to = None /\ ~fnOut.dry_run)
        => LET before == fnOut.before
               n == fnOut.steps
               target == NthParent(before, before.opHead, n)
               fetched == operation_log(before, n + 1)
           IN  /\ Len(fetched) <= n + 1
               /\ \A i \in 1..Len(fetched) :
                      fetched[i].id = NthParent(before, before.opHead, i - 1)
               /\ IF target = 0
                  THEN /\ fnOut.result =
                              ErrAnyhow("Not enough operations to undo steps")
                       /\ Repository = before
                  ELSE /\ fnOut.result.status = "Ok"
                       /\ fnOut.result.restored_to = target
                       /\ Len(fetched) = n + 1
                       /\ opHead = Len(before.ops) + 1
                       /\ ops[opHead].parent = before.opHead
                       /\ ops[opHead].view = before.ops[target].view

\* C24 witness: two operations were undone, to an operation with another
\* working-copy change
C24_Witness ==
    /\ fnOut # Null /\ fnOut.cmd = "undo" /\ fnOut.to = None
    /\ ~fnOut.dry_run
    /\ fnOut.steps = 2
    /\ fnOut.result.status = "Ok"
    /\ ops[opHead].view # fnOut.before.ops[fnOut.before.opHead].view

\* C24 witness of the failure: more steps than the log has operations
C24_WitnessShort ==
    /\ fnOut # Null /\ fnOut.cmd = "undo" /\ fnOut.to = None
    /\ ~fnOut.dry_run
    /\ fnOut.steps = Len(fnOut.before.ops)
    /\ fnOut.steps > 1
    /\ fnOut.result.status = "Err"

\* C25 as claimed: the checkpoint list is strictly descending by its
\* created_at timestamp string for every set of stored checkpoints,
\* including checkpoints created within the same second.
C25_ListStrictlyDescending ==
    (fnOut # Null /\ fnOut.cmd = "list")
        => \A i, k \in 1..Len(fnOut.checkpoints) :
               i < k => StrLess(fnOut.checkpoints[k].created_at,
                                fnOut.checkpoints[i].created_at)

\* C25 amended: the checkpoint list holds every stored checkpoint once and
\* is descending by its created_at timestamp string: no entry has a greater
\* string than an entry before it; a later system time gives a greater
\* string, so checkpoints created in different seconds are strictly
\* descending, and those created within the same second have equal strings.
C25_ListDescending ==
    /\ \A t1, t2 \in CheckpointTimes :
           /\ t1 < t2 => StrLess(chrono_lite_now(t1), chrono_lite_now(t2))
           /\ ~StrLess(chrono_lite_now(t1), chrono_lite_now(t1))
    /\ (fnOut # Null /\ fnOut.cmd = "list")
           => /\ \A i, k \in 1..Len(fnOut.checkpoints) :
                     i < k => ~StrLess(fnOut.checkpoints[i].created_at,
                                       fnOut.checkpoints[k].created_at)
              /\ Len(fnOut.checkpoints) =
                     Cardinality({n \in CheckpointNames : fnIn[n] # Null})
              /\ \A n \in CheckpointNames :
                     fnIn[n] # Null
                         => \E i \in 1..Len(fnOut.checkpoints) :
                                fnOut.checkpoints[i] = fnIn[n]

\* C25 witness: three checkpoints, two of them of the same second, read in
\* an order that was not the listed one
C25_Witness ==
    /\ fnOut # Null /\ fnOut.cmd = "list"
    /\ Len(fnOut.checkpoints) = 3
    /\ \E i \in 1..2 : fnOut.checkpoints[i].created_at
                           = fnOut.checkpoints[i + 1].created_at
    /\ fnOut.checkpoints[1].created_at # fnOut.checkpoints[3].created_at
    /\ StrLess(fnIn[fnOut.order[1]].created_at, fnIn[fnOut.order[2]].created_at)

---------------------------------------------------------------------------
(* Repo::read_file (src/src/repo.rs) *)

Ok(value) == [status |-> "Ok", value |-> value]

\* a revision argument: "@", the hex id of a commit, or another string
RevAt == [name |-> "@"]

RevHex(commit_id) == [hex |-> commit_id]

RevOther == [name |-> "main"]

\* std::fs::read_to_string(root.join(path))
read_to_string(f, path, message) ==
    IF f[path] # 0 THEN Ok(f[path]) ELSE ErrRepository(message)

\* Repo::read_file(path, at) on the repository r and the working directory f
\* (trees hold regular files only)
read_file(r, f, path, at) ==
    IF at = None THEN read_to_string(f, path, "failed to read file")
    ELSE LET rev == at.some
             commit_id == IF rev = RevAt THEN r.ops[r.opHead].view.wc
                          ELSE rev.hex
         IN  IF rev = RevOther
             THEN ErrRepository("cannot resolve revision")
             ELSE IF commit_id \notin DOMAIN r.commits
             THEN ErrRepository("failed to get commit")
             ELSE IF r.commits[commit_id].tree[path] = 0
             THEN ErrRepository("file not found at revision")
             ELSE read_to_string(f, path, "failed to read file")

ReadTrees == [Paths -> 0..1]

\* a repository of two commits with any trees, the second the working-copy
\* commit, and any working directory
InitRead ==
    /\ fs \in [Paths -> {0} \cup Contents]
    /\ manifest = NoManifest
    /\ \E t1, t2 \in ReadTrees :
           commits = <<[parent |-> 0, tree |-> t1, conflict |-> FALSE],
                       [parent |-> 1, tree |-> t2, conflict |-> FALSE]>>
    /\ ops = <<[parent |-> 0,
                view |-> [wc |-> 2, bookmarks |-> [b \in Branches |-> 0]],
                desc |-> "init"]>>
    /\ opHead = 1
    /\ typed = {}
    /\ tempPatch = FALSE
    /\ git = NoGit
    /\ pc = "idle"
    /\ intent = Null
    /\ pre = Null
    /\ loc = Null
    /\ result = Null
    /\ fnIn = Null
    /\ fnOut = Null

\* repo.read_file(path, at) is called
ReadFile(path, at) ==
    /\ fnIn' = [path |-> path, at |-> at]
    /\ fnOut' = read_file(Repository, fs, path, at)
    /\ UNCHANGED engineVars

NextRead ==
    \E path \in Paths,
       at \in {None, Some(RevAt), Some(RevOther)}
              \cup {Some(RevHex(c)) : c \in 1..3} :
        ReadFile(path, at)

SpecRead == InitRead /\ [][NextRead]_vars

\* C26: read_file(path, Some(rev)) returns the content the file has in the
\* tree of revision rev, or a not-found error when the path is absent
\* there, whatever the file holds in the working directory;
\* read_file(path, None) returns the working-directory content.
C26_ReadFileAtRevision ==
    fnOut # Null =>
        /\ fnIn.at = None /\ fs[fnIn.path] # 0 => fnOut = Ok(fs[fnIn.path])
        /\ \A c \in DOMAIN commits :
               (fnIn.at = Some(RevHex(c))
                    \/ (fnIn.at = Some(RevAt) /\ c = wc_commit_id))
                   => fnOut = IF commits[c].tree[fnIn.path] # 0
                              THEN Ok(commits[c].tree[fnIn.path])
                              ELSE ErrRepository("file not found at revision")

---------------------------------------------------------------------------
(* Further properties of Repo::apply *)

\* C27: after Repo::apply with a Patch or PatchFile spec returns, on the
\* success path and on every failure path (patch exits non-zero, patch
\* cannot be started), the file .agent/temp.patch does not exist.
C27_TempPatchRemoved ==
    (pc = "returned" /\ intent.changes.format \in {"patch", "patchfile"})
        => ~tempPatch

\* the call in progress went through steps 5 to 8
GatesReached ==
    /\ pc = "returned"
    /\ result.status \in {"Success", "Conflict", "InvariantFailed",
                          "RequiresReview"}

\* C30: inside one apply call the gates run in the order preconditions,
\* permissions, create change, apply spec, conflict check, review check,
\* invariants, typed-change write, each ending the call when it fails: a
\* result of a gate means every earlier gate passed and no later step has
\* acted; a change that conflicts and touches a review path gives Conflict,
\* and one that touches a review path gives RequiresReview with no invariant
\* command run.
C30_GateOrder ==
    pc = "returned"
        => /\ result.status = "PreconditionFailed"
                  => /\ loc.change_id = 0
                     /\ Len(commits) = pre.ncommits
                     /\ fs = pre.fs
           /\ result.status = "PermissionDenied"
                  => /\ ~AnyPreconditionFails(intent.preconditions, pre)
                     /\ loc.change_id = 0
                     /\ Len(commits) = pre.ncommits
                     /\ fs = pre.fs
           /\ loc.change_id # 0
                  => /\ ~AnyPreconditionFails(intent.preconditions, pre)
                     /\ has_manifest => check_permissions(intent) = {}
           /\ ~GatesReached
                  => /\ loc.invariants_run = {}
                     /\ typed = pre.typed
           /\ GatesReached
                  => /\ result.status = "Conflict"
                            <=> has_conflicts(loc.change_id)
                     /\ result.status = "RequiresReview"
                            <=> /\ ~has_conflicts(loc.change_id)
                                /\ has_manifest
                                /\ review_paths(loc.files_changed) # <<>>
                     /\ result.status \in {"Conflict", "RequiresReview"}
                            => /\ loc.invariants_run = {}
                               /\ typed = pre.typed
                     /\ result.status = "InvariantFailed"
                            => /\ result.invariant \in loc.invariants_run
                               /\ typed = pre.typed
                     /\ result.status = "Success"
                            => \E t \in typed : t.change_id = loc.change_id

\* C30 witness: RequiresReview was returned for an intent that asked for the
\* invariants, under a manifest with a pre-commit invariant
C30_Witness ==
    /\ pc = "returned"
    /\ result.status = "RequiresReview"
    /\ intent.run_invariants
    /\ invariants_for(manifest, "PreCommit") # {}

\* C30 witness: Conflict was returned for a change that touches a review path
C30_WitnessConflict ==
    /\ pc = "returned"
    /\ result.status = "Conflict"
    /\ has_manifest
    /\ review_paths(loc.files_changed) # <<>>

---------------------------------------------------------------------------
(* Repo::log_entries (src/src/repo.rs) *)

\* The DAG is a sequence of commits [parents], commit 1 being the root
\* commit, whose change id is all zero bytes; the change id of commit c > 1
\* is taken to be the number c.
HexChars == <<"0", "1", "2", "3", "4", "5", "6", "7", "8", "9",
              "a", "b", "c", "d", "e", "f">>

\* ObjectId::hex of an id of four bytes holding the number n
Hex(n) == [i \in 1..8 |-> HexChars[((n \div (16 ^ (8 - i))) % 16) + 1]]

ChangeIdOf(c) == IF c = 1 THEN 0 ELSE c

ShortHex(hex) == IF Len(hex) > 8 THEN SubSeq(hex, 1, 8) ELSE hex

RootPrefix == <<"z", "z", "z", "z", "z", "z", "z", "z">>

LogEntry(dag, wc, c) ==
    [change_id |-> ShortHex(Hex(ChangeIdOf(c))),
     full_commit_id |-> c,
     parent_change_ids |-> [i \in 1..Len(dag[c].parents) |->
                               ShortHex(Hex(ChangeIdOf(dag[c].parents[i])))],
     is_working_copy |-> (c = wc)]

\* the parents of c not yet visited, pushed in order
RECURSIVE PushParents(_, _, _)
PushParents(to_visit, parents, visited) ==
    IF parents = <<>> THEN to_visit
    ELSE PushParents(IF Head(parents) \in visited THEN to_visit
                     ELSE Append(to_visit, Head(parents)),
                     Tail(parents), visited)

\* the loop of log_entries
RECURSIVE log_walk(_, _, _, _, _, _, _)
log_walk(dag, wc, limit, all, to_visit, visited, entries) ==
    IF to_visit = <<>> THEN entries
    ELSE LET commit_id == to_visit[Len(to_visit)]
             rest == SubSeq(to_visit, 1, Len(to_visit) - 1)
         IN  IF ~all /\ Len(entries) >= limit THEN entries
             ELSE IF commit_id \in visited
             THEN log_walk(dag, wc, limit, all, rest, visited, entries)
             ELSE IF StartsWith(Hex(ChangeIdOf(commit_id)), RootPrefix)
             THEN log_walk(dag, wc, limit, all, rest,
                           visited \cup {commit_id}, entries)
             ELSE log_walk(dag, wc, limit, all,
                           PushParents(rest, dag[commit_id].parents,
                                       visited \cup {commit_id}),
                           visited \cup {commit_id},
                           Append(entries, LogEntry(dag, wc, commit_id)))

\* Repo::log_entries(limit, all); heads is view.heads() in iteration order
log_entries(dag, wc, heads, limit, all) ==
    log_walk(dag, wc, limit, all, heads, {}, <<>>)

\* one or two distinct parents among the commits 1..c-1, in either order
ParentLists(c) ==
    {<<p>> : p \in 1..(c - 1)}
    \cup ({<<p, q>> : p, q \in 1..(c - 1)} \ {<<p, p>> : p \in 1..(c - 1)})

Dags ==
    UNION {{d \in [1..n -> [parents : UNION {ParentLists(c) : c \in 2..n}
                                          \cup {<<>>}]] :
                /\ d[1].parents = <<>>
                /\ \A c \in 2..n : d[c].parents \in ParentLists(c)}
           : n \in 2..MaxNodes}

HeadsOf(dag) ==
    {c \in DOMAIN dag : \A e \in DOMAIN dag : c \notin Elems(dag[e].parents)}

\* any DAG on the root commit, the working-copy commit being the newest
\* commit, the heads in any iteration order, any limit
InitLog ==
    /\ EngineOff
    /\ \E dag \in Dags :
           \E heads \in [1..Cardinality(HeadsOf(dag)) -> HeadsOf(dag)],
              limit \in 0..MaxNodes, all \in BOOLEAN :
               /\ \A i, k \in DOMAIN heads : i # k => heads[i] # heads[k]
               /\ fnIn = [dag |-> dag, wc |-> Len(dag), heads |-> heads,
                          limit |-> limit, all |-> all]
    /\ fnOut = Null

\* repo.log_entries(limit, all) is called
LogEntries ==
    /\ fnOut = Null
    /\ fnOut' = [entries |-> log_entries(fnIn.dag, fnIn.wc, fnIn.heads,
                                         fnIn.limit, fnIn.all)]
    /\ UNCHANGED <<engineVars, fnIn>>

NextLog == LogEntries

SpecLog == InitLog /\ [][NextLog]_vars

\* C28: log_entries(limit, all = false) returns at most limit records, never
\* two records of the same commit, and never the root commit, for every
\* commit DAG (merges included, where a commit is reachable from several
\* heads).
C28_LogEntriesBounded ==
    (fnOut # Null /\ ~fnIn.all)
        => /\ Len(fnOut.entries) <= fnIn.limit
           /\ \A i, k \in 1..Len(fnOut.entries) :
                  i # k => fnOut.entries[i].full_commit_id
                               # fnOut.entries[k].full_commit_id
           /\ \A i \in 1..Len(fnOut.entries) :
                  fnOut.entries[i].full_commit_id # 1

---------------------------------------------------------------------------
(* extract_symbols (src/src/symbols.rs) *)

\* A raw query match is what the capture loop leaves in its locals: the name
\* (None when the pattern captured no name), the docstring, the start line.
SymbolNames == {"a", "b"}

RawMatches ==
    [name : {None} \cup {Some(n) : n \in SymbolNames},
     docstring : {None, Some("d")},
     start_line : 1..2]

\* the while loop: one Symbol per match that captured a name
RECURSIVE collect_symbols(_)
collect_symbols(matches) ==
    IF matches = <<>> THEN <<>>
    ELSE LET m == Head(matches)
         IN  IF m.name # None
             THEN <<[name |-> m.name.some, kind |-> "function",
                     docstring |-> m.docstring,
                     start_line |-> m.start_line]>>
                  \o collect_symbols(Tail(matches))
             ELSE collect_symbols(Tail(matches))

\* symbols.sort_by(|a, b| a.start_line.cmp(&b.start_line)), a stable sort
RECURSIVE sort_by_start_line(_)
sort_by_start_line(symbols) ==
    IF symbols = <<>> THEN <<>>
    ELSE LET sorted == sort_by_start_line(SubSeq(symbols, 1, Len(symbols) - 1))
             x == symbols[Len(symbols)]
             k == Cardinality({i \in 1..Len(sorted) :
                                   sorted[i].start_line <= x.start_line})
         IN  SubSeq(sorted, 1, k) \o <<x>> \o SubSeq(sorted, k + 1, Len(sorted))

\* symbols.dedup_by(|a, b| a.name == b.name && a.start_line == b.start_line):
\* an element is removed when it equals the element retained just before it
RECURSIVE dedup_by_name_and_line(_)
dedup_by_name_and_line(symbols) ==
    IF symbols = <<>> THEN <<>>
    ELSE LET kept == dedup_by_name_and_line(SubSeq(symbols, 1, Len(symbols) - 1))
             x == symbols[Len(symbols)]
         IN  IF kept # <<>> /\ kept[Len(kept)].name = x.name
                            /\ kept[Len(kept)].start_line = x.start_line
             THEN kept
             ELSE Append(kept, x)

\* extract_symbols, from the raw matches on
extract_symbols(matches) ==
    dedup_by_name_and_line(sort_by_start_line(collect_symbols(matches)))

MatchLists ==
    UNION {[1..n -> RawMatches] : n \in 0..MaxMatches}

InitSymbols ==
    /\ EngineOff
    /\ fnIn \in MatchLists
    /\ fnOut = Null

ExtractSymbols ==
    /\ fnOut = Null
    /\ fnOut' = [symbols |-> extract_symbols(fnIn)]
    /\ UNCHANGED <<engineVars, fnIn>>

NextSymbols == ExtractSymbols

SpecSymbols == InitSymbols /\ [][NextSymbols]_vars

\* C29: the list extract_symbols returns has no two entries with the same
\* (name, start_line) and is sorted by start_line, for every sequence of raw
\* matches.
C29_SymbolsDedupedAndSorted ==
    fnOut # Null
        => /\ \A i, k \in 1..Len(fnOut.symbols) :
                  i # k => ~(/\ fnOut.symbols[i].name = fnOut.symbols[k].name
                             /\ fnOut.symbols[i].start_line
                                    = fnOut.symbols[k].start_line)
           /\ \A i, k \in 1..Len(fnOut.symbols) :
                  i < k => fnOut.symbols[i].start_line
                               <= fnOut.symbols[k].start_line

---------------------------------------------------------------------------
(* Further properties of Repo::check_preconditions *)

\* the kinds of check, stated on the repository apply was called on
OperationIdFails(p, st) ==
    p.operation_id # None /\ p.operation_id.some # st.op

BranchAtFails(p, st) ==
    \E k \in 1..Len(p.branch_at) :
        st.bookmarks[p.branch_at[k][1]] # p.branch_at[k][2]

FilesExistFails(p, st) ==
    \E k \in 1..Len(p.files_exist) : st.fs[p.files_exist[k]] = 0

FilesAbsentFails(p, st) ==
    \E k \in 1..Len(p.files_absent) : st.fs[p.files_absent[k]] # 0

\* C31: check_preconditions evaluates the operation id, then the branch
\* positions, then the required-present files, then the required-absent
\* files, then the file hashes, and the first failing check gives the result;
\* a branch that does not exist gives "not found", one that exists at another
\* change gives "has moved".
C31_FirstFailingCheckDecides ==
    (pc = "returned" /\ result.status = "PreconditionFailed")
        => LET p == intent.preconditions
               msg == result.reason.msg
           IN  IF OperationIdFails(p, pre)
               THEN msg = "operation ID mismatch"
               ELSE IF BranchAtFails(p, pre)
               THEN /\ msg \in {"branch not found", "branch has moved"}
                    /\ \E k \in 1..Len(p.branch_at) :
                           /\ p.branch_at[k][1] = result.reason.branch
                           /\ pre.bookmarks[p.branch_at[k][1]] # p.branch_at[k][2]
                    /\ msg = "branch not found"
                           <=> pre.bookmarks[result.reason.branch] = 0
               ELSE IF FilesExistFails(p, pre)
               THEN /\ msg = "file does not exist"
                    /\ pre.fs[result.reason.file] = 0
               ELSE IF FilesAbsentFails(p, pre)
               THEN /\ msg = "file should not exist"
                    /\ pre.fs[result.reason.file] # 0
               ELSE /\ msg \in {"file not found for hash check",
                                "file hash mismatch"}
                    /\ msg = "file not found for hash check"
                           <=> pre.fs[result.reason.file] = 0

\* C31 witness: a missing branch decided although a required-present file is
\* missing too
C31_Witness ==
    /\ pc = "returned"
    /\ result.status = "PreconditionFailed"
    /\ result.reason.msg = "branch not found"
    /\ FilesExistFails(intent.preconditions, pre)

\* C31 witness: a moved branch decided
C31_WitnessMoved ==
    /\ pc = "returned"
    /\ result.status = "PreconditionFailed"
    /\ result.reason.msg = "branch has moved"

---------------------------------------------------------------------------
(* Further properties of Repo::apply: what a failing gate leaves behind *)

\* no other operation was appended to the log during the call in progress
NoForeignOperation == Len(commits) = pre.ncommits + 1

\* C32 (as claimed): when apply returns Conflict or InvariantFailed, the
\* change named by the result exists and is the working-copy commit, and the
\* current operation is the one that created it.
C32_FailedGateLeavesChangeCurrent ==
    (pc = "returned" /\ result.status \in {"Conflict", "InvariantFailed"})
        => /\ result.change_id \in 1..Len(commits)
           /\ current_change_id = result.change_id
           /\ current_operation_id = loc.operation_id
           /\ ops[loc.operation_id].desc = "new change"

\* C32 (amended): when apply returns Conflict or InvariantFailed nothing has
\* been rolled back: the change named by the result exists and the operation
\* that created it is the current operation or one of its ancestors; when no
\* other operation was appended during the call, the change is the
\* working-copy commit and the creating operation, a child of the operation
\* apply was called on, is the current operation.
C32_FailedGateLeavesChange ==
    (pc = "returned" /\ result.status \in {"Conflict", "InvariantFailed"})
        => /\ result.change_id \in 1..Len(commits)
           /\ result.change_id = loc.change_id
           /\ ops[loc.operation_id].desc = "new change"
           /\ ops[loc.operation_id].view.wc = result.change_id
           /\ IsAncestorOrEqual(loc.operation_id, current_operation_id)
           /\ NoForeignOperation
                  => /\ current_change_id = result.change_id
                     /\ current_operation_id = loc.operation_id
                     /\ ops[loc.operation_id].parent = pre.op

\* C32 witness: InvariantFailed was returned by a call no other operation
\* fell into
C32_Witness ==
    /\ pc = "returned"
    /\ result.status = "InvariantFailed"
    /\ NoForeignOperation

---------------------------------------------------------------------------
(* Typed-change store (src/src/change.rs, src/src/main.rs) *)

\* ".agent/changes/" and ".toml"
ChangesDir ==
    <<".", "a", "g", "e", "n", "t", "/", "c", "h", "a", "n", "g", "e", "s", "/">>

TomlExt == <<".", "t", "o", "m", "l">>

\* TypedChange::storage_path
storage_path(change_id) == ChangesDir \o change_id \o TomlExt

\* the file a path names: its components, the empty ones and "." dropped
PathComponents(path) ==
    LET Named(c) == c # <<>> /\ c # <<".">>
    IN  SelectSeq(Split(path, "/"), Named)

\* the index of the last "." of a file name that counts as the start of an
\* extension (Path::extension, Path::file_stem); 0 when there is none
ExtensionDot(name) ==
    LET dots == {i \in 2..Len(name) : name[i] = "."}
    IN  IF dots = {} THEN 0 ELSE CHOOSE i \in dots : \A j \in dots : j <= i

file_stem(name) ==
    IF ExtensionDot(name) = 0 THEN name
    ELSE SubSeq(name, 1, ExtensionDot(name) - 1)

extension(name) ==
    IF ExtensionDot(name) = 0 THEN None
    ELSE Some(SubSeq(name, ExtensionDot(name) + 1, Len(name)))

\* TypedChange::save on the files under the repository root: the file
\* storage_path names is written whole
typed_change_save(files, change_id) ==
    LET path == PathComponents(storage_path(change_id))
    IN  {f \in files : f.path # path}
        \cup {[path |-> path, change_id |-> change_id]}

\* the files ChangeIndex::load_from_repo reads: the entries of
\* .agent/changes with the extension toml
TypedChangeFiles(files) ==
    {f \in files :
        /\ Len(f.path) = 3
        /\ SubSeq(f.path, 1, 2) = PathComponents(ChangesDir)
        /\ extension(f.path[3]) = Some(<<"t", "o", "m", "l">>)}

\* the --change-id values of `change set`: none, "@", an id, "./1", "a/1"
ChangeIdArgs ==
    {None, Some(<<"@">>), Some(Hex(1)), Some(<<".", "/", "1">>),
     Some(<<"a", "/", "1">>)}

\* a repository whose working-copy change is change 1, no typed change yet
InitTyped ==
    /\ EngineOff
    /\ fnIn = [files |-> {}, wc |-> 1, next |-> 2]
    /\ fnOut = Null

\* Repo::apply as the store sees it: a new change becomes the working-copy
\* change, and its record is saved when the result is Success
TypedApply(success) ==
    /\ fnIn.next <= MaxChanges
    /\ fnIn' = [files |-> IF success
                          THEN typed_change_save(fnIn.files, Hex(fnIn.next))
                          ELSE fnIn.files,
                wc |-> fnIn.next, next |-> fnIn.next + 1]
    /\ fnOut' = [cmd |-> "apply", success |-> success,
                 change_id |-> Hex(fnIn.next), before |-> fnIn.files]
    /\ UNCHANGED engineVars

\* Repo::commit_working_copy as the store sees it: the record of the
\* committed change is saved and a new working-copy change follows it
TypedCommit ==
    /\ fnIn.next <= MaxChanges
    /\ fnIn' = [files |-> typed_change_save(fnIn.files, Hex(fnIn.wc)),
                wc |-> fnIn.next, next |-> fnIn.next + 1]
    /\ fnOut' = [cmd |-> "commit", success |-> TRUE,
                 change_id |-> Hex(fnIn.wc), before |-> fnIn.files]
    /\ UNCHANGED engineVars

\* cmd_change, ChangeAction::Set
ChangeSet(change_id) ==
    /\ LET cid == IF change_id # None /\ change_id # Some(<<"@">>)
                  THEN change_id.some
                  ELSE Hex(fnIn.wc)
       IN  /\ fnIn' = [fnIn EXCEPT !.files = typed_change_save(fnIn.files, cid)]
           /\ fnOut' = [cmd |-> "change set", success |-> TRUE,
                        change_id |-> cid, before |-> fnIn.files]
    /\ UNCHANGED engineVars

NextTyped ==
    \/ \E success \in BOOLEAN : TypedApply(success)
    \/ TypedCommit
    \/ \E change_id \in ChangeIdArgs : ChangeSet(change_id)

SpecTyped == InitTyped /\ [][NextTyped]_vars

\* C33: apply writes a typed-change record if and only if it returns
\* Success, at .agent/changes/<change_id>.toml for the change_id of the
\* result, and after any sequence of apply, commit and `change set` every
\* typed-change file's change_id field equals its filename stem.
C33_TypedChangeFileNamedByChangeId ==
    /\ (fnOut # Null /\ fnOut.cmd = "apply")
           => IF fnOut.success
              THEN \E f \in TypedChangeFiles(fnIn.files) :
                       /\ f.change_id = fnOut.change_id
                       /\ file_stem(f.path[3]) = fnOut.change_id
              ELSE fnIn.files = fnOut.before
    /\ \A f \in TypedChangeFiles(fnIn.files) :
           file_stem(f.path[3]) = f.change_id

---------------------------------------------------------------------------
(* Repo::commit_working_copy: the working-copy lock (src/src/repo.rs) *)

\* Two processes call commit_working_copy on one repository.  The
\* working-copy lock is 0 when free, else the process that holds it; the
\* LockedWorkspace guard releases it in finish() and when it is dropped.
Procs == 1..2

\* workspace.start_working_copy_mutation(): waits until the lock is free
start_working_copy_mutation_noWait(lock, p) == {p}

start_working_copy_mutation(lock, p) == IF lock = 0 THEN {p} ELSE {}

\* locked_ws.finish(op_id), or the drop of locked_ws on an early return
release(lock, p) == IF lock = p THEN 0 ELSE lock

CommitErrors ==
    {"nothing to commit", "path does not exist", "no changes in specified paths",
     "InvariantFailed", "driver error"}

ProcIdle == [pc |-> "idle", paths |-> FALSE, run_invariants |-> FALSE,
             result |-> "none"]

InitLock ==
    /\ EngineOff
    /\ fnIn = [lock |-> 0, proc |-> [p \in Procs |-> ProcIdle]]
    /\ fnOut = Null

\* the step of process p from position `from` to position `to`, with the lock
\* as given; a return records the result
LockStep(p, from, to, lock, res) ==
    /\ fnIn.proc[p].pc = from
    /\ fnIn' = [lock |-> lock,
                proc |-> [fnIn.proc EXCEPT ![p].pc = to, ![p].result = res]]
    /\ fnOut' = IF to = "returned" THEN [proc |-> p, result |-> res] ELSE fnOut
    /\ UNCHANGED engineVars

\* the call, up to the lock: workspace and repository loaded at the head
\* operation, working-copy commit and parent tree read; any of them can fail
LockCall(p, paths, run_inv, ok) ==
    /\ fnIn.proc[p].pc = "idle"
    /\ fnIn' = [fnIn EXCEPT
                   !.proc[p] = [pc |-> IF ok THEN "loaded" ELSE "returned",
                                paths |-> paths, run_invariants |-> run_inv,
                                result |-> IF ok THEN "none" ELSE "driver error"]]
    /\ fnOut' = IF ok THEN fnOut ELSE [proc |-> p, result |-> "driver error"]
    /\ UNCHANGED engineVars

\* start_working_copy_mutation
LockAcquire(p) ==
    \E holder \in start_working_copy_mutation(fnIn.lock, p) :
        LockStep(p, "loaded", "locked", holder, "none")

\* snapshot; on error the guard is dropped
LockSnapshot(p, ok) ==
    IF ok
    THEN LockStep(p, "locked", "snapshotted", fnIn.lock, "none")
    ELSE LockStep(p, "locked", "returned", release(fnIn.lock, p), "driver error")

\* the diff and the --paths selection: each bail-out finishes the guard
LockSelect(p, outcome) ==
    /\ outcome \in {"ok", "nothing to commit", "driver error"}
          \/ fnIn.proc[p].paths
    /\ IF outcome = "ok"
       THEN LockStep(p, "snapshotted", "selected", fnIn.lock, "none")
       ELSE LockStep(p, "snapshotted", "returned", release(fnIn.lock, p), outcome)

\* run_invariants between snapshot and commit
LockInvariants(p, ok) ==
    IF ok \/ ~fnIn.proc[p].run_invariants
    THEN LockStep(p, "selected", "ready", fnIn.lock, "none")
    ELSE LockStep(p, "selected", "returned", release(fnIn.lock, p),
                  "InvariantFailed")

\* the transaction, up to tx.commit("commit"); on error the guard is dropped
LockCommit(p, ok) ==
    IF ok
    THEN LockStep(p, "ready", "committed", fnIn.lock, "none")
    ELSE LockStep(p, "ready", "returned", release(fnIn.lock, p), "driver error")

\* locked_ws.finish(new_repo.op_id()), then the Git sync and the return
LockFinish(p) ==
    /\ fnIn.proc[p].pc = "committed"
    /\ LockStep(p, "committed", "returned", release(fnIn.lock, p), "Success")

\* the caller is done with the result
LockReturn(p) ==
    /\ fnIn.proc[p].pc = "returned"
    /\ fnIn' = [fnIn EXCEPT !.proc[p] = ProcIdle]
    /\ UNCHANGED <<engineVars, fnOut>>

NextLock ==
    \E p \in Procs :
        \/ \E paths, run_inv, ok \in BOOLEAN : LockCall(p, paths, run_inv, ok)
        \/ LockAcquire(p)
        \/ \E ok \in BOOLEAN : LockSnapshot(p, ok)
        \/ \E outcome \in {"ok", "nothing to commit", "path does not exist",
                           "no changes in specified paths", "driver error"} :
               LockSelect(p, outcome)
        \/ \E ok \in BOOLEAN : LockInvariants(p, ok)
        \/ \E ok \in BOOLEAN : LockCommit(p, ok)
        \/ LockFinish(p)
        \/ LockReturn(p)

SpecLock == InitLock /\ [][NextLock]_vars

\* the positions from the start of the snapshot to the commit of the
\* transaction
BetweenSnapshotAndCommit(p) ==
    fnIn.proc[p].pc \in {"locked", "snapshotted", "selected", "ready", "committed"}

\* C34: commit_working_copy holds the working-copy lock from the start of the
\* snapshot until the transaction has committed or the call bails out, has
\* released it on every return path, and two concurrent calls are never both
\* between snapshot and commit.
C34_LockHeldFromSnapshotToCommit ==
    /\ \A p \in Procs :
           /\ BetweenSnapshotAndCommit(p) => fnIn.lock = p
           /\ fnIn.proc[p].pc \in {"idle", "loaded", "returned"} => fnIn.lock # p
    /\ ~(BetweenSnapshotAndCommit(1) /\ BetweenSnapshotAndCommit(2))

\* C34 witness: one call is between snapshot and commit while the other has
\* loaded the repository and waits for the lock
C34_Witness ==
    /\ fnIn.proc[1].pc = "ready"
    /\ fnIn.proc[2].pc = "loaded"

---------------------------------------------------------------------------
(* Further properties of Repo::apply: the operation-id precondition *)

\* C35: the operation-id precondition is an atomic compare-and-commit:
\* whenever apply returns Success for an intent that requires the expected
\* operation id X, the operation that created its change is a direct child of
\* X, also when another process creates a change on the same repository
\* during the call.
C35_OperationIdCompareAndCommit ==
    (/\ pc = "returned"
     /\ result.status = "Success"
     /\ intent.preconditions.operation_id # None)
        => ops[result.operation_id].parent = intent.preconditions.operation_id.some

---------------------------------------------------------------------------
(* Further properties of Repo::apply: permissions and the Files spec *)

\* C36: with a manifest present, an apply of a Files spec that does not
\* return PermissionDenied creates, replaces, deletes or renames no path for
\* which can_change is false (neither the source nor the destination of a
\* Rename).
C36_NoDeniedPathIsWritten ==
    (/\ pc = "returned"
     /\ has_manifest
     /\ intent.changes.format = "files"
     /\ result.status # "PermissionDenied")
        => \A p \in Paths :
               (fs[p] # pre.fs[p] \/ p \in Elems(loc.files_changed))
                   => can_change(manifest.permissions, p)

\* C37: applying a Files spec is all-or-nothing on the working directory:
\* when a file operation of the list fails, apply returns an error and every
\* file is as it was before the call.
C37_FilesSpecAllOrNothing ==
    (/\ pc = "returned"
     /\ intent.changes.format = "files"
     /\ result.status \in {"Io", "Repository"})
        => fs = pre.fs

---------------------------------------------------------------------------
(* Further properties of cmd_undo *)

\* the command just run was undo(1), and so was the one before it, both
\* carried out
TwoUndosInARow ==
    /\ fnOut # Null /\ fnOut.cmd = "undo"
    /\ fnOut.steps = 1 /\ fnOut.to = None /\ ~fnOut.dry_run
    /\ fnOut.result.status = "Ok"
    /\ fnOut.prior # None
    /\ fnOut.prior.some.steps = 1 /\ fnOut.prior.some.to = None
    /\ ~fnOut.prior.some.dry_run
    /\ fnOut.prior.some.status = "Ok"

---------------------------------------------------------------------------
(* Further properties of Manifest::invariants_for *)

\* C39: an invariant declared with the trigger `always` in its `on` list is
\* selected by invariants_for for every trigger (so that apply and
\* commit_working_copy run it at pre-commit).
C39_AlwaysRunsOnEveryTrigger ==
    fnOut # Null
        => \A inv \in fnIn.manifest.invariants :
               "Always" \in triggers(inv) => inv \in fnOut.selected

---------------------------------------------------------------------------
(* days_to_ymd (src/src/repo.rs) *)

\* i64 and u32 division, which truncates toward zero
TruncDiv(a, b) == IF a >= 0 THEN a \div b ELSE -((-a) \div b)

\* mutant: the century correction of the year of era is left out
days_to_ymd_noCentury(days) ==
    LET z == days + 719468
        era == TruncDiv(IF z >= 0 THEN z ELSE z - 146096, 146097)
        doe == z - era * 146097
        yoe == TruncDiv(doe - TruncDiv(doe, 1460) - TruncDiv(doe, 146096), 365)
        y0 == yoe + era * 400
        doy == doe - (365 * yoe + TruncDiv(yoe, 4) - TruncDiv(yoe, 100))
        mp == TruncDiv(5 * doy + 2, 153)
        d == doy - TruncDiv(153 * mp + 2, 5) + 1
        m == IF mp < 10 THEN mp + 3 ELSE mp - 9
        y == IF m <= 2 THEN y0 + 1 ELSE y0
    IN  <<y, m, d>>

days_to_ymd(days) ==
    LET z == days + 719468
        era == TruncDiv(IF z >= 0 THEN z ELSE z - 146096, 146097)
        doe == z - era * 146097
        yoe == TruncDiv(doe - TruncDiv(doe, 1460) + TruncDiv(doe, 36524)
                            - TruncDiv(doe, 146096), 365)
        y0 == yoe + era * 400
        doy == doe - (365 * yoe + TruncDiv(yoe, 4) - TruncDiv(yoe, 100))
        mp == TruncDiv(5 * doy + 2, 153)
        d == doy - TruncDiv(153 * mp + 2, 5) + 1
        m == IF mp < 10 THEN mp + 3 ELSE mp - 9
        y == IF m <= 2 THEN y0 + 1 ELSE y0
    IN  <<y, m, d>>

\* the year, month and day chrono_lite_now computes for a day count, by its
\* loops over the years and the months
loop_ymd(days) ==
    LET y == YearOfDays(1970, days)
        days_in_months ==
            IF is_leap_year(y.year)
            THEN <<31, 29, 31, 30, 31, 30, 31, 31, 30, 31, 30, 31>>
            ELSE <<31, 28, 31, 30, 31, 30, 31, 31, 30, 31, 30, 31>>
        m == MonthOfDays(days_in_months, 1, y.remaining_days)
    IN  <<y.year, m.month, m.remaining_days + 1>>

\* The proleptic Gregorian calendar, by counting.  The leap years among the
\* years 1..n (for n <= 0, minus those among n+1..0):
LeapYearsUpTo(n) == (n \div 4) - (n \div 100) + (n \div 400)

DaysInMonth(year, month) ==
    CASE month = 2 -> IF is_leap_year(year) THEN 29 ELSE 28
      [] month \in {4, 6, 9, 11} -> 30
      [] OTHER -> 31

RECURSIVE DaysBeforeMonth(_, _)
DaysBeforeMonth(year, month) ==
    IF month <= 1 THEN 0
    ELSE DaysBeforeMonth(year, month - 1) + DaysInMonth(year, month - 1)

\* the number of days from 1970-01-01 to the civil date year-month-day
DayNumber(year, month, day) ==
    365 * (year - 1970) + LeapYearsUpTo(year - 1) - LeapYearsUpTo(1969)
    + DaysBeforeMonth(year, month) + (day - 1)

\* the days around the start of era 0 (0000-03-01), where z changes sign
EraDays == {-719470, -719469, -719468, -719467}

InitDays ==
    /\ EngineOff
    /\ fnIn \in (-MaxDay..MaxDay) \cup EraDays
    /\ fnOut = Null

DaysToYmd ==
    /\ fnOut = Null
    /\ fnOut' = [ymd |-> days_to_ymd(fnIn)]
    /\ UNCHANGED <<engineVars, fnIn>>

NextDays == DaysToYmd

SpecDays == InitDays /\ [][NextDays]_vars

\* C40: days_to_ymd(d) is the proleptic Gregorian civil date of the day d
\* days after 1970-01-01, with the month in 1..12 and the day in 1..31, also
\* for negative d and for leap days (0 is 1970-01-01, 11016 is 2000-02-29,
\* 20498 is 2026-02-14), and for d >= 0 it is the date the loop-based
\* conversion of the checkpoint timestamps computes.
C40_DaysToYmdIsCivilDate ==
    fnOut # Null
        => /\ fnOut.ymd[2] \in 1..12
           /\ fnOut.ymd[3] \in 1..DaysInMonth(fnOut.ymd[1], fnOut.ymd[2])
           /\ DayNumber(fnOut.ymd[1], fnOut.ymd[2], fnOut.ymd[3]) = fnIn
           /\ fnIn >= 0 => fnOut.ymd = loop_ymd(fnIn)
           /\ fnIn = 0 => fnOut.ymd = <<1970, 1, 1>>
           /\ fnIn = 11016 => fnOut.ymd = <<2000, 2, 29>>
           /\ fnIn = 20498 => fnOut.ymd = <<2026, 2, 14>>

\* C40 witness: the leap day of 1968, a negative day count
C40_Witness ==
    /\ fnOut # Null
    /\ fnIn = -672
    /\ fnOut.ymd = <<1968, 2, 29>>

====
